---------------------------- MODULE Spec2Model ----------------------------
(***************************************************************************)
(* ARINC 429 test automation: the codec (utils/arinc429.py), the flight    *)
(* data generator (data_generator.py) and the broadcaster of the API       *)
(* server (api_server.py).                                                 *)
(*                                                                         *)
(* Numbers.  The program computes with Python floats.  The model computes  *)
(* with exact fixed-point integers: latitude and longitude are counted in  *)
(* 1/DegUnit degrees, every other quantity (feet, knots, heading degrees,  *)
(* feet per minute and the rates) in 1/Unit of its unit.  Floating-point   *)
(* rounding error of the products is therefore not modelled.               *)
(***************************************************************************)
EXTENDS Integers, Sequences, FiniteSets, TLC

VARIABLES
    \* ---- ARINC429Encoder (the one instance used by the operations) ----
    sdi,                  \* self.sdi
    ssm,                  \* self.ssm, the sign/status scratch of the encoder
    calls,                \* per thread: its call of generate_arinc429_data in progress, with its locals
    \* ---- last operation called, its argument and what it returned ----
    op, arg, ret,
    \* ---- FlightDataGenerator ----
    current_latitude, current_longitude, current_altitude,
    current_airspeed, current_heading, current_vertical_speed,
    heading_change_rate, altitude_change_rate, speed_change_rate,
    current_data, history,
    clock,                \* datetime.now(): grows with every sample
    produced,             \* every sample ever constructed, in order (history variable of the model)
    waypoints,            \* SimulatedFlightDataGenerator: self.waypoints (a FlightDataGenerator has none)
    current_waypoint_index,
    twin,                 \* a second simulator fed the same draws and calls: its state and its samples
    \* ---- ARINC429APIServer: registries and the tick loop ----
    active_connections, external_configs, running,
    pc,                   \* per loop thread: its position in _data_generation_loop
    arinc_data,           \* per loop thread, local: the result of generate_arinc429_data
    idx,                  \* per loop thread: items taken by the for-loop it is in
    disconnected,         \* per loop thread: local list of broadcast_data
    \* ---- history variables of the model ----
    tick,                 \* number of ticks begun
    fresh,                \* number of connections accepted so far; a connection is named by its number
    received,             \* per connection: the samples sent to it, in the order sent
    attempts,             \* the deliveries to sinks attempted: <<sample, url, outcome>>
    failed,               \* connections whose send failed in the fan-out of the current tick
    tick_subs,            \* the registry as the fan-out of the current tick found it
    mutated,              \* a connect or disconnect call took effect since that fan-out began
    dropped,              \* per connection: the tick after whose failed send it was removed, else 0
    tick_sinks            \* urls enabled in the registry since the current tick began

codecVars == <<sdi, ssm, calls>>
callVars  == <<op, arg, ret>>
genVars   == <<current_latitude, current_longitude, current_altitude,
               current_airspeed, current_heading, current_vertical_speed,
               heading_change_rate, altitude_change_rate, speed_change_rate,
               current_data, history, clock, produced,
               waypoints, current_waypoint_index, twin>>
navVars   == <<waypoints, current_waypoint_index>>
srvVars   == <<active_connections, external_configs, running, pc, arinc_data, idx,
               disconnected, tick, fresh, received, attempts, failed, tick_subs,
               mutated, dropped, tick_sinks>>
vars      == <<codecVars, callVars, genVars, srvVars>>

-----------------------------------------------------------------------------
(* Resolution of the model and bounds of the explored inputs.              *)

\* latitude/longitude are counted in 1/DegUnit degree: the six decimals that
\* generate_flight_data keeps (round(.., 6))
DegUnit == 1000000
\* sub-steps of the model inside one tenth (0.1) of any other unit
Sub == 10
\* the other quantities are counted in 1/Unit
Unit == 10 * Sub
\* number of grid intervals the envelope of a field is cut into for the inputs
GridN == 6

abs(x) == IF x < 0 THEN -x ELSE x

Min(a, b) == IF a < b THEN a ELSE b

Max(a, b) == IF a > b THEN a ELSE b

\* the six fields in the order of the `encodings` list
Fields == <<"latitude", "longitude", "altitude", "airspeed", "heading", "vertical_speed">>

FieldSet == {Fields[i] : i \in 1..Len(Fields)}

\* units per engineering unit of a field
UnitOf(f) == IF f \in {"latitude", "longitude"} THEN DegUnit ELSE Unit

-----------------------------------------------------------------------------
(* utils/arinc429.py: ARINC429Encoder                                      *)

LABELS ==
    [f \in FieldSet |->
        CASE f = "latitude"       -> "6A"
          [] f = "longitude"      -> "6B"
          [] f = "altitude"       -> "6C"
          [] f = "airspeed"       -> "6D"
          [] f = "heading"        -> "6E"
          [] f = "vertical_speed" -> "6F"]

\* the characters of a two-character bit string ("00", "01", "10", "11")
StrBits(s) ==
    CASE s = "00" -> <<0, 0>>
      [] s = "01" -> <<0, 1>>
      [] s = "10" -> <<1, 0>>
      [] s = "11" -> <<1, 1>>

RECURSIVE Pow2(_)
Pow2(n) == IF n = 0 THEN 1 ELSE 2 * Pow2(n - 1)

\* int(bits, 2) of a string of binary digits, most significant first
RECURSIVE int2(_)
int2(bits) ==
    IF bits = <<>> THEN 0
    ELSE 2 * int2(SubSeq(bits, 1, Len(bits) - 1)) + bits[Len(bits)]

\* int(label, 16) of the two-character labels that occur
int16(label) ==
    CASE label = "6A" -> 106
      [] label = "6B" -> 107
      [] label = "6C" -> 108
      [] label = "6D" -> 109
      [] label = "6E" -> 110
      [] label = "6F" -> 111
      [] label = "69" -> 105
      [] label = "70" -> 112
      [] label = "00" -> 0
      [] label = "6a" -> 106

\* format(n, '019b') for 0 <= n < 2^19
format019b(n) == [i \in 1..19 |-> (n \div Pow2(19 - i)) % 2]

\* n & 0x7FFFF for n >= 0
Mask19(n) == n % 524288

\* int(x * scale) for x >= 0 counted in 1/u, where scale divides u or u divides scale
ScaledInt(x, scale, u) ==
    IF scale >= u THEN x * (scale \div u) ELSE x \div (u \div scale)

\* bin(word).count('1')
RECURSIVE bit_count(_)
bit_count(word) == IF word = 0 THEN 0 ELSE (word % 2) + bit_count(word \div 2)

\* what an encode_* call gives: whether it raised ValueError, the data string
\* it returned, and self.ssm when it ends
Raised(ssm0) == [raised |-> TRUE, data |-> <<>>, ssm |-> ssm0]

Returned(data, ssm1) == [raised |-> FALSE, data |-> data, ssm |-> ssm1]

\* encode_latitude that leaves self.ssm as it finds it
encode_latitude_unsigned(latitude, ssm0) ==
    IF latitude < -90 * DegUnit \/ latitude > 90 * DegUnit THEN Raised(ssm0)
    ELSE Returned(format019b(Mask19(ScaledInt(abs(latitude), 10000, DegUnit))), ssm0)

encode_latitude(latitude, ssm0) ==
    IF latitude < -90 * DegUnit \/ latitude > 90 * DegUnit THEN Raised(ssm0)
    ELSE Returned(format019b(Mask19(ScaledInt(abs(latitude), 10000, DegUnit))),
                  IF latitude >= 0 THEN "00" ELSE "11")

encode_longitude(longitude, ssm0) ==
    IF longitude < -180 * DegUnit \/ longitude > 180 * DegUnit THEN Raised(ssm0)
    ELSE Returned(format019b(Mask19(ScaledInt(abs(longitude), 10000, DegUnit))),
                  IF longitude >= 0 THEN "00" ELSE "11")

encode_altitude(altitude, ssm0) ==
    IF altitude < 0 \/ altitude > 50000 * Unit THEN Raised(ssm0)
    ELSE Returned(format019b(Mask19(ScaledInt(altitude, 1, Unit))), "00")

encode_airspeed(airspeed, ssm0) ==
    IF airspeed < 0 \/ airspeed > 1000 * Unit THEN Raised(ssm0)
    ELSE Returned(format019b(Mask19(ScaledInt(airspeed, 10, Unit))), "00")

encode_heading(heading, ssm0) ==
    IF heading < 0 \/ heading > 360 * Unit THEN Raised(ssm0)
    ELSE Returned(format019b(Mask19(ScaledInt(heading, 10, Unit))), "00")

encode_vertical_speed(vertical_speed, ssm0) ==
    IF vertical_speed < -10000 * Unit \/ vertical_speed > 10000 * Unit THEN Raised(ssm0)
    ELSE Returned(format019b(Mask19(ScaledInt(abs(vertical_speed), 1, Unit))),
                  IF vertical_speed >= 0 THEN "00" ELSE "11")

\* encoder_func(value) of the `encodings` entry of a field
encoder_func(f, value, ssm0) ==
    CASE f = "latitude"       -> encode_latitude(value, ssm0)
      [] f = "longitude"      -> encode_longitude(value, ssm0)
      [] f = "altitude"       -> encode_altitude(value, ssm0)
      [] f = "airspeed"       -> encode_airspeed(value, ssm0)
      [] f = "heading"        -> encode_heading(value, ssm0)
      [] f = "vertical_speed" -> encode_vertical_speed(value, ssm0)

\* calculate_parity with the two parity values exchanged (even parity)
calculate_parity_even(label, sdi0, data, ssm0) ==
    LET word == int16(label) * Pow2(24) + int2(StrBits(sdi0)) * Pow2(22)
                + int2(data) * Pow2(3) + int2(StrBits(ssm0)) * Pow2(1)
    IN  IF bit_count(word) % 2 = 0 THEN "0" ELSE "1"

calculate_parity(label, sdi0, data, ssm0) ==
    LET word == int16(label) * Pow2(24) + int2(StrBits(sdi0)) * Pow2(22)
                + int2(data) * Pow2(3) + int2(StrBits(ssm0)) * Pow2(1)
    IN  IF bit_count(word) % 2 = 0 THEN "1" ELSE "0"

ARINC429Message(label, sdi0, data, ssm0, parity, timestamp) ==
    [label |-> label, sdi |-> sdi0, data |-> data, ssm |-> ssm0,
     parity |-> parity, timestamp |-> timestamp]

\* one pass of the for-loop of encode_flight_data over Fields[i..6]: acc holds
\* messages, the fields whose word was appended (kept beside the messages by the
\* model, to name the source of each word) and self.ssm
RECURSIVE encode_loop(_, _, _, _)
encode_loop(flight_data, sdi0, i, acc) ==
    IF i > Len(Fields) THEN acc
    ELSE LET data_type == Fields[i]
             r == encoder_func(data_type, flight_data[data_type], acc.ssm)
             label == LABELS[data_type]
             parity == calculate_parity(label, sdi0, r.data, r.ssm)
             message == ARINC429Message(label, sdi0, r.data, r.ssm, parity,
                                        flight_data.timestamp)
         IN  encode_loop(flight_data, sdi0, i + 1,
                 IF r.raised
                 THEN [acc EXCEPT !.ssm = r.ssm]
                 ELSE [messages |-> Append(acc.messages, message),
                       fields   |-> Append(acc.fields, data_type),
                       ssm      |-> r.ssm])

\* encode_flight_data with the try around the whole loop: the first failing
\* field ends the batch
RECURSIVE encode_loop_abort(_, _, _, _)
encode_loop_abort(flight_data, sdi0, i, acc) ==
    IF i > Len(Fields) THEN acc
    ELSE LET data_type == Fields[i]
             r == encoder_func(data_type, flight_data[data_type], acc.ssm)
             label == LABELS[data_type]
             parity == calculate_parity(label, sdi0, r.data, r.ssm)
             message == ARINC429Message(label, sdi0, r.data, r.ssm, parity,
                                        flight_data.timestamp)
         IN  IF r.raised THEN acc
             ELSE encode_loop_abort(flight_data, sdi0, i + 1,
                      [messages |-> Append(acc.messages, message),
                       fields   |-> Append(acc.fields, data_type),
                       ssm      |-> r.ssm])

encode_flight_data_abort(flight_data, sdi0, ssm0) ==
    encode_loop_abort(flight_data, sdi0, 1, [messages |-> <<>>, fields |-> <<>>, ssm |-> ssm0])

encode_flight_data(flight_data, sdi0, ssm0) ==
    encode_loop(flight_data, sdi0, 1, [messages |-> <<>>, fields |-> <<>>, ssm |-> ssm0])

-----------------------------------------------------------------------------
(* utils/arinc429.py: ARINC429Decoder                                      *)

decode_latitude(data, ssm0) ==
    LET latitude == int2(data) * (DegUnit \div 10000)
    IN  IF ssm0 = "11" THEN -latitude ELSE latitude

decode_longitude(data, ssm0) ==
    LET longitude == int2(data) * (DegUnit \div 10000)
    IN  IF ssm0 = "11" THEN -longitude ELSE longitude

decode_altitude(data, ssm0) == int2(data) * Unit

decode_airspeed(data, ssm0) == int2(data) * (Unit \div 10)

decode_heading(data, ssm0) == int2(data) * (Unit \div 10)

decode_vertical_speed(data, ssm0) ==
    LET vertical_speed == int2(data) * Unit
    IN  IF ssm0 = "11" THEN -vertical_speed ELSE vertical_speed

\* the keys of the `decoders` table of decode_message
DecoderLabels == {"6A", "6B", "6C", "6D", "6E", "6F"}

\* the decoders table with the entries of 6C and 6D exchanged
decoders_swapped(label, data, ssm0) ==
    CASE label = "6A" -> <<"latitude", decode_latitude(data, ssm0)>>
      [] label = "6B" -> <<"longitude", decode_longitude(data, ssm0)>>
      [] label = "6C" -> <<"airspeed", decode_airspeed(data, ssm0)>>
      [] label = "6D" -> <<"altitude", decode_altitude(data, ssm0)>>
      [] label = "6E" -> <<"heading", decode_heading(data, ssm0)>>
      [] label = "6F" -> <<"vertical_speed", decode_vertical_speed(data, ssm0)>>

\* decoders[label]: the field name and the value its decoder_func gives
decoders(label, data, ssm0) ==
    CASE label = "6A" -> <<"latitude", decode_latitude(data, ssm0)>>
      [] label = "6B" -> <<"longitude", decode_longitude(data, ssm0)>>
      [] label = "6C" -> <<"altitude", decode_altitude(data, ssm0)>>
      [] label = "6D" -> <<"airspeed", decode_airspeed(data, ssm0)>>
      [] label = "6E" -> <<"heading", decode_heading(data, ssm0)>>
      [] label = "6F" -> <<"vertical_speed", decode_vertical_speed(data, ssm0)>>

\* decode_message: raises ValueError for a label outside the table
decode_message(message) ==
    IF message.label \in DecoderLabels
    THEN LET d == decoders(message.label, message.data, message.ssm)
         IN  [raised |-> FALSE, data_type |-> d[1], value |-> d[2]]
    ELSE [raised |-> TRUE, data_type |-> "", value |-> 0]


-----------------------------------------------------------------------------
(* State after construction                                                *)

FlightData(latitude, longitude, altitude, airspeed, heading, vertical_speed, timestamp) ==
    [latitude |-> latitude, longitude |-> longitude, altitude |-> altitude,
     airspeed |-> airspeed, heading |-> heading,
     vertical_speed |-> vertical_speed, timestamp |-> timestamp]

\* ARINC429Encoder.__init__
EncoderInit ==
    /\ sdi = "00"
    /\ ssm = "00"

\* loop threads that can exist at a time
MaxThreads == 2

Threads == 1..MaxThreads

\* the thread that runs the endpoint handlers
ServerThread == 0

\* the threads that call generate_arinc429_data
Callers == Threads \cup {ServerThread}

\* no call in progress
Idle ==
    [pc |-> "idle", new_data |-> <<>>, i |-> 0, data_binary |-> <<>>, parity |-> "",
     messages |-> <<>>, fields |-> <<>>]

\* FlightDataGenerator.__init__ and _generate_initial_data
max_history == 1000

update_interval == 1

GeneratorInit ==
    /\ current_latitude = 412622 * (DegUnit \div 10000)
    /\ current_longitude = 287278 * (DegUnit \div 10000)
    /\ current_altitude = 35000 * Unit
    /\ current_airspeed = 450 * Unit
    /\ current_heading = 270 * Unit
    /\ current_vertical_speed = 0
    /\ heading_change_rate = 0
    /\ altitude_change_rate = 0
    /\ speed_change_rate = 0
    /\ current_data = FlightData(412622 * (DegUnit \div 10000), 287278 * (DegUnit \div 10000),
                                 35000 * Unit, 450 * Unit, 270 * Unit, 0, 0)
    /\ history = <<current_data>>
    /\ produced = <<current_data>>
    /\ clock = 1
    /\ waypoints = <<>>
    /\ current_waypoint_index = 0
    /\ twin = [kin |-> [latitude |-> current_latitude, longitude |-> current_longitude,
                        altitude |-> current_altitude, airspeed |-> current_airspeed,
                        heading |-> current_heading,
                        vertical_speed |-> current_vertical_speed,
                        heading_change_rate |-> 0, altitude_change_rate |-> 0,
                        speed_change_rate |-> 0],
               produced |-> produced, diverged |-> FALSE]

\* ARINC429APIServer.__init__
ServerInit ==
    /\ active_connections = <<>>
    /\ external_configs = <<>>
    /\ running = FALSE
    /\ pc = [t \in Threads |-> "no_thread"]
    /\ arinc_data = [t \in Threads |-> <<>>]
    /\ idx = [t \in Threads |-> 0]
    /\ disconnected = [t \in Threads |-> <<>>]
    /\ tick = 0
    /\ fresh = 0
    /\ received = <<>>
    /\ attempts = <<>>
    /\ failed = {}
    /\ tick_subs = <<>>
    /\ mutated = FALSE
    /\ dropped = <<>>
    /\ tick_sinks = {}
    /\ calls = [c \in Callers |-> Idle]

NoCall ==
    /\ op = "none"
    /\ arg = <<>>
    /\ ret = <<>>

Init ==
    /\ EncoderInit
    /\ GeneratorInit
    /\ ServerInit
    /\ NoCall

-----------------------------------------------------------------------------
(* The codec: calls of the encoder and the decoder with caller-chosen      *)
(* arguments.  op, arg and ret hold one call at a time: a call is made     *)
(* when the caller holds no result (op = "none").                          *)

\* the envelope of a field in section 3 of the specification: [EnvLo, EnvHi],
\* the upper end excluded for heading
EnvLo(f) ==
    CASE f = "latitude"       -> -90 * DegUnit
      [] f = "longitude"      -> -180 * DegUnit
      [] f = "altitude"       -> 0
      [] f = "airspeed"       -> 0
      [] f = "heading"        -> 0
      [] f = "vertical_speed" -> -10000 * Unit

EnvHi(f) ==
    CASE f = "latitude"       -> 90 * DegUnit
      [] f = "longitude"      -> 180 * DegUnit
      [] f = "altitude"       -> 50000 * Unit
      [] f = "airspeed"       -> 1000 * Unit
      [] f = "heading"        -> 360 * Unit
      [] f = "vertical_speed" -> 10000 * Unit

InEnvelope(f, v) ==
    /\ EnvLo(f) <= v
    /\ IF f = "heading" THEN v < EnvHi(f) ELSE v <= EnvHi(f)

\* one quantization step of a field: 0.0001 deg, 0.0001 deg, 1 ft, 0.1 kt, 0.1 deg, 1 ft/min
QuantStep(f) ==
    CASE f = "latitude"       -> DegUnit \div 10000
      [] f = "longitude"      -> DegUnit \div 10000
      [] f = "altitude"       -> Unit
      [] f = "airspeed"       -> Unit \div 10
      [] f = "heading"        -> Unit \div 10
      [] f = "vertical_speed" -> Unit

\* the factor a field is scaled by before it is truncated to an integer
ScaleOf(f) ==
    CASE f = "latitude"       -> 10000
      [] f = "longitude"      -> 10000
      [] f = "altitude"       -> 1
      [] f = "airspeed"       -> 10
      [] f = "heading"        -> 10
      [] f = "vertical_speed" -> 1

\* a part of a quantization step, added to grid values so that truncation happens
Frac(f) == IF f \in {"latitude", "longitude"} THEN 37 ELSE 3

GridValues(f) ==
    {EnvLo(f) + k * ((EnvHi(f) - EnvLo(f)) \div GridN) : k \in 0..GridN} \cup {EnvHi(f)}

SpecialValues(f) ==
    CASE f = "latitude"  -> {524287 * (DegUnit \div 10000), 524288 * (DegUnit \div 10000),
                             -412622 * (DegUnit \div 10000)}
      [] f = "longitude" -> {524287 * (DegUnit \div 10000), -524288 * (DegUnit \div 10000)}
      [] f = "heading"   -> {360 * Unit - 1, 270 * Unit}
      [] OTHER           -> {}

\* the values a caller passes for a field: inside, on the ends of and outside the envelope
FieldInputs(f) ==
    GridValues(f) \cup {g + Frac(f) : g \in GridValues(f)} \cup {g - Frac(f) : g \in GridValues(f)}
    \cup {EnvLo(f) - 1, EnvHi(f) + 1, EnvLo(f) - UnitOf(f), EnvHi(f) + UnitOf(f), -1, 0, 1}
    \cup SpecialValues(f)

BaseSample ==
    FlightData(412622 * (DegUnit \div 10000), 287278 * (DegUnit \div 10000),
               35000 * Unit, 450 * Unit, 270 * Unit, 0, 0)

\* samples that differ from the base sample in one field
StarSamples == UNION {{[BaseSample EXCEPT ![f] = v] : v \in FieldInputs(f)} : f \in FieldSet}

\* samples with several fields negative, on a boundary or out of range at once
ProductSamples ==
    {FlightData(la, lo, al, sp, hd, vs, 0) :
        la \in {-412622 * (DegUnit \div 10000), 524287 * (DegUnit \div 10000), 90 * DegUnit + 1},
        lo \in {-287278 * (DegUnit \div 10000), 0, 181 * DegUnit},
        al \in {35000 * Unit, -1},
        sp \in {450 * Unit, 1000 * Unit + 1},
        hd \in {270 * Unit, 360 * Unit + 1},
        vs \in {-500 * Unit, 500 * Unit + 50, -10001 * Unit}}

SampleInputs == StarSamples \cup ProductSamples

\* words handed to the decoder that no encoder call produced
WordLabels == {"6A", "6B", "6C", "6D", "6E", "6F", "69", "70", "00", "6a"}

WordInputs ==
    {ARINC429Message(l, "00", format019b(d), s, "0", 0) :
        l \in WordLabels, d \in {0, 4500, 524287}, s \in {"00", "11", "01"}}

\* encoder.encode_<field>(value)
EncodeField ==
    \E f \in FieldSet : \E v \in FieldInputs(f) :
        LET r == encoder_func(f, v, ssm)
        IN  /\ op = "none"
            /\ op' = "encode"
            /\ arg' = [field |-> f, value |-> v]
            /\ ret' = r
            /\ ssm' = r.ssm
            /\ UNCHANGED <<sdi, calls, genVars, srvVars>>

\* encoder.encode_flight_data(flight_data)
EncodeFlightData ==
    \E fd \in SampleInputs :
        LET r == encode_flight_data(fd, sdi, ssm)
        IN  /\ op = "none"
            /\ op' = "encode_flight_data"
            /\ arg' = fd
            /\ ret' = r
            /\ ssm' = r.ssm
            /\ UNCHANGED <<sdi, calls, genVars, srvVars>>

\* decoder.decode_message(message) of a word of the last encode_flight_data result
DecodeEncoded ==
    /\ op = "encode_flight_data"
    /\ \E i \in 1..Len(ret.messages) :
        /\ op' = "decode_message"
        /\ arg' = [message |-> ret.messages[i], encoded |-> TRUE,
                   field |-> ret.fields[i], value |-> arg[ret.fields[i]]]
        /\ ret' = decode_message(ret.messages[i])
    /\ UNCHANGED <<codecVars, genVars, srvVars>>

\* decoder.decode_message(message) of any other word
DecodeWord ==
    /\ op = "none"
    /\ \E m \in WordInputs :
        /\ op' = "decode_message"
        /\ arg' = [message |-> m, encoded |-> FALSE, field |-> "", value |-> 0]
        /\ ret' = decode_message(m)
    /\ UNCHANGED <<codecVars, genVars, srvVars>>

\* the caller is done with the result of its last call (a call of
\* stop_data_generation returns by JoinReturns, a handler get_arinc429_data
\* that runs step by step by QueryReturn)
Return ==
    /\ op \notin {"none", "stop_data_generation", "get_arinc429_data"}
    /\ op' = "none"
    /\ arg' = <<>>
    /\ ret' = <<>>
    /\ UNCHANGED <<codecVars, genVars, srvVars>>

NextCodec ==
    \/ EncodeField
    \/ EncodeFlightData
    \/ DecodeEncoded
    \/ DecodeWord
    \/ Return

SpecCodec == Init /\ [][NextCodec]_vars


-----------------------------------------------------------------------------
(* Properties of the codec                                                 *)

\* the 32 bits label(8) | sdi(2) | data(19) | ssm(2) | parity(1) of a word
WordBits(m) ==
    [i \in 1..8 |-> (int16(m.label) \div Pow2(8 - i)) % 2]
    \o StrBits(m.sdi) \o m.data \o StrBits(m.ssm)
    \o <<IF m.parity = "1" THEN 1 ELSE 0>>

RECURSIVE Ones(_)
Ones(bits) == IF bits = <<>> THEN 0 ELSE Head(bits) + Ones(Tail(bits))

SignedFields == {"latitude", "longitude", "vertical_speed"}

\* the label of each field in the code table of the specification
TableLabel(f) ==
    CASE f = "latitude"       -> "6A"
      [] f = "longitude"      -> "6B"
      [] f = "altitude"       -> "6C"
      [] f = "airspeed"       -> "6D"
      [] f = "heading"        -> "6E"
      [] f = "vertical_speed" -> "6F"

\* C1 (as claimed): decoding the word that encodes an in-envelope value of a
\* field returns that field and a value less than one quantization step away
\* from the original.
C1_RoundTrip ==
    (op = "decode_message" /\ arg.encoded /\ InEnvelope(arg.field, arg.value))
        => /\ ~ret.raised
           /\ ret.data_type = arg.field
           /\ abs(ret.value - arg.value) < QuantStep(arg.field)

\* C2: every word emitted by encode_flight_data has an odd number of set bits
\* over its 32 bits.
C2_OddParity ==
    op = "encode_flight_data"
        => \A i \in 1..Len(ret.messages) :
              /\ Len(WordBits(ret.messages[i])) = 32
              /\ Ones(WordBits(ret.messages[i])) % 2 = 1

\* C2 witness: a result of six words, one with the data field all ones and one
\* with the data field all zeros, and one with ssm "11".
C2_Witness ==
    /\ op = "encode_flight_data"
    /\ Len(ret.messages) = 6
    /\ \E i \in 1..6 : Ones(ret.messages[i].data) = 19
    /\ \E i \in 1..6 : Ones(ret.messages[i].data) = 0
    /\ \E i \in 1..6 : ret.messages[i].ssm = "11"

\* C3 (as claimed): encoding a value outside the envelope of its field fails
\* with a range error and yields no word.
C3_RangeError ==
    (op = "encode" /\ ~InEnvelope(arg.field, arg.value)) => ret.raised

\* the fields of a sample, in order, whose single encoding succeeds
RECURSIVE SucceedingFrom(_, _)
SucceedingFrom(fd, i) ==
    IF i > Len(Fields) THEN <<>>
    ELSE (IF encoder_func(Fields[i], fd[Fields[i]], "00").raised THEN <<>> ELSE <<Fields[i]>>)
         \o SucceedingFrom(fd, i + 1)

\* C4: encode_flight_data returns one word per field whose encoding succeeds,
\* in the order latitude .. vertical_speed with the labels 6A .. 6F; a failing
\* field only leaves out its own word.
C4_EncodeAll ==
    op = "encode_flight_data"
        => LET ok == SucceedingFrom(arg, 1)
           IN  /\ Len(ret.messages) = Len(ok)
               /\ \A i \in 1..Len(ok) :
                     /\ ret.messages[i].label = TableLabel(ok[i])
                     /\ ret.messages[i].timestamp = arg.timestamp
               /\ (\A f \in FieldSet : ~encoder_func(f, arg[f], "00").raised)
                     => [i \in 1..Len(ret.messages) |-> ret.messages[i].label]
                            = <<"6A", "6B", "6C", "6D", "6E", "6F">>

\* C4 witness: a failing field in the middle, words before and after it.
C4_Witness ==
    /\ op = "encode_flight_data"
    /\ encoder_func("altitude", arg.altitude, "00").raised
    /\ [i \in 1..Len(ret.messages) |-> ret.messages[i].label] = <<"6A", "6B", "6D", "6E", "6F">>

\* C5 (as claimed): in every word of encode_flight_data, a signed field has
\* ssm "11" exactly when its source value is negative and "00" otherwise, and
\* its data is the scaled absolute magnitude; an unsigned field has ssm "00".
C5_SignStatus ==
    op = "encode_flight_data"
        => \A i \in 1..Len(ret.messages) :
              LET f == ret.fields[i]
                  v == arg[f]
                  m == ret.messages[i]
              IN  IF f \in SignedFields
                  THEN /\ m.ssm = (IF v < 0 THEN "11" ELSE "00")
                       /\ int2(m.data) = ScaledInt(abs(v), ScaleOf(f), UnitOf(f))
                  ELSE m.ssm = "00"

\* C6: a label outside the table makes decode_message fail; a label of the
\* table never does, and gives the field the encoder maps to that label.
C6_UnknownLabel ==
    op = "decode_message"
        => IF arg.message.label \in {"6A", "6B", "6C", "6D", "6E", "6F"}
           THEN /\ ~ret.raised
                /\ ret.data_type \in FieldSet
                /\ LABELS[ret.data_type] = arg.message.label
           ELSE ret.raised

\* C6 witness: a word with the lower-case label "6a" was refused.
C6_Witness ==
    /\ op = "decode_message"
    /\ arg.message.label = "6a"
    /\ ret.raised


-----------------------------------------------------------------------------
(* data_generator.py: FlightDataGenerator                                  *)

\* a / b rounded toward zero (b > 0)
Quot(a, b) == IF a >= 0 THEN a \div b ELSE -((-a) \div b)

\* round(v, ndigits) when one unit of that last digit is `step` model units:
\* to the nearest multiple of step, a tie to the even multiple
RoundTo(v, step) ==
    LET q == v \div step
        r == v - q * step
    IN  IF 2 * r < step THEN q * step
        ELSE IF 2 * r > step THEN (q + 1) * step
        ELSE IF q % 2 = 0 THEN q * step ELSE (q + 1) * step

\* math.sin of an angle of a / Unit degrees, times 10000.  The model has no
\* floating point: the sine is Bhaskara's rational approximation
\* 4x(180-x) / (40500 - x(180-x)) on [0,180], continued by symmetry.
SinE4(a) ==
    LET r == a % (360 * Unit)
        x == IF r <= 180 * Unit THEN r ELSE r - 180 * Unit
        p == x * (180 * Unit - x)
        b == (4 * p) \div ((40500 * Unit * Unit - p) \div 10000)
    IN  IF r <= 180 * Unit THEN b ELSE -b

\* math.cos, times 10000
CosE4(a) == SinE4(90 * Unit - a)

\* a latitude (1/DegUnit degrees) as an angle in 1/Unit degrees
LatAngle(latitude) == Quot(latitude, DegUnit \div Unit)

\* the quotient of lon_change when math.cos(latitude) rounds to zero in the model
\* (the float is tiny, never zero: the quotient is huge and clamped afterwards)
HugeDeg == 720

\* the kinematic state and the rates as one record
Kin ==
    [latitude |-> current_latitude, longitude |-> current_longitude,
     altitude |-> current_altitude, airspeed |-> current_airspeed,
     heading |-> current_heading, vertical_speed |-> current_vertical_speed,
     heading_change_rate |-> heading_change_rate,
     altitude_change_rate |-> altitude_change_rate,
     speed_change_rate |-> speed_change_rate]

\* config.AVIATION_RANGES
AVIATION_RANGES ==
    [latitude       |-> [min |-> -90 * DegUnit, max |-> 90 * DegUnit],
     longitude      |-> [min |-> -180 * DegUnit, max |-> 180 * DegUnit],
     altitude       |-> [min |-> 0, max |-> 50000 * Unit],
     airspeed       |-> [min |-> 0, max |-> 1000 * Unit],
     heading        |-> [min |-> 0, max |-> 360 * Unit],
     vertical_speed |-> [min |-> -10000 * Unit, max |-> 10000 * Unit]]

\* max(min, min(max, value)) of one field
clamp(f, v) == Max(AVIATION_RANGES[f].min, Min(AVIATION_RANGES[f].max, v))

_apply_boundaries(k) ==
    [k EXCEPT !.latitude = clamp("latitude", @),
              !.longitude = clamp("longitude", @),
              !.altitude = clamp("altitude", @),
              !.airspeed = clamp("airspeed", @),
              !.heading = clamp("heading", @),
              !.vertical_speed = clamp("vertical_speed", @)]

\* the heading of _update_position after `current_heading += heading_change_rate * dt`
\* and the if / elif that follows, before _apply_boundaries
integrate_heading(k) ==
    LET turned == k.heading + k.heading_change_rate * update_interval
    IN  IF turned >= 360 * Unit THEN turned - 360 * Unit
        ELSE IF turned < 0 THEN turned + 360 * Unit
        ELSE turned

\* _update_position with the altitude integrated from altitude_change_rate
_update_position_by_rate(k) ==
    LET dt == update_interval
        \* speed_ms * dt in millimetres (0.5144 m/s per knot)
        distance == (k.airspeed * 5144 * dt) \div (10 * Unit)
        lat_change == Quot((distance \div 10) * CosE4(k.heading), 111320)
        latitude == k.latitude + lat_change
        cos_lat == CosE4(LatAngle(latitude))
        north == Quot((distance \div 10) * SinE4(k.heading), 111320)
        lon_change ==
            IF cos_lat # 0 THEN (IF cos_lat > 0 THEN 1 ELSE -1) * Quot(north * 10000, abs(cos_lat))
            ELSE IF north > 0 THEN HugeDeg * DegUnit
            ELSE IF north < 0 THEN -HugeDeg * DegUnit
            ELSE 0
        heading == integrate_heading(k)
    IN  _apply_boundaries(
            [k EXCEPT !.latitude = latitude,
                      !.longitude = k.longitude + lon_change,
                      !.heading = heading,
                      !.altitude = k.altitude + Quot(k.altitude_change_rate * dt, 60),
                      !.airspeed = k.airspeed + k.speed_change_rate * dt])

_update_position(k) ==
    LET dt == update_interval
        \* speed_ms * dt in millimetres (0.5144 m/s per knot)
        distance == (k.airspeed * 5144 * dt) \div (10 * Unit)
        lat_change == Quot((distance \div 10) * CosE4(k.heading), 111320)
        latitude == k.latitude + lat_change
        cos_lat == CosE4(LatAngle(latitude))
        north == Quot((distance \div 10) * SinE4(k.heading), 111320)
        lon_change ==
            IF cos_lat # 0 THEN (IF cos_lat > 0 THEN 1 ELSE -1) * Quot(north * 10000, abs(cos_lat))
            ELSE IF north > 0 THEN HugeDeg * DegUnit
            ELSE IF north < 0 THEN -HugeDeg * DegUnit
            ELSE 0
        heading == integrate_heading(k)
    IN  _apply_boundaries(
            [k EXCEPT !.latitude = latitude,
                      !.longitude = k.longitude + lon_change,
                      !.heading = heading,
                      !.altitude = k.altitude + Quot(k.vertical_speed * dt, 60),
                      !.airspeed = k.airspeed + k.speed_change_rate * dt])

\* _add_realistic_variations without its second half: the rates and the
\* vertical speed are left as they were
_add_realistic_variations_keep(k, d) ==
    [k EXCEPT !.latitude = @ + d.latitude,
              !.longitude = @ + d.longitude,
              !.altitude = @ + d.altitude,
              !.airspeed = @ + d.airspeed,
              !.heading = @ + d.heading,
              !.vertical_speed = @ + d.vertical_speed]

\* d: the nine values drawn by random.uniform, in the order of the calls
_add_realistic_variations(k, d) ==
    [latitude |-> k.latitude + d.latitude,
     longitude |-> k.longitude + d.longitude,
     altitude |-> k.altitude + d.altitude,
     airspeed |-> k.airspeed + d.airspeed,
     heading |-> k.heading + d.heading,
     vertical_speed |-> d.altitude_change_rate,
     heading_change_rate |-> d.heading_change_rate,
     altitude_change_rate |-> d.altitude_change_rate,
     speed_change_rate |-> d.speed_change_rate]

\* the ranges of the nine random.uniform calls
UniformRange ==
    [latitude |-> DegUnit \div 1000, longitude |-> DegUnit \div 1000,
     altitude |-> 10 * Unit, airspeed |-> 2 * Unit, heading |-> Unit \div 2,
     vertical_speed |-> 50 * Unit, heading_change_rate |-> Unit,
     altitude_change_rate |-> 500 * Unit, speed_change_rate |-> 5 * Unit]

\* the state and the sample of one generate_flight_data call with draws d at time now
generate(k, d, now) ==
    LET k1 == _apply_boundaries(_add_realistic_variations(_update_position(k), d))
    IN  [kin |-> k1,
         new_data |-> FlightData(RoundTo(k1.latitude, DegUnit \div 1000000),
                                 RoundTo(k1.longitude, DegUnit \div 1000000),
                                 RoundTo(k1.altitude, Unit \div 10),
                                 RoundTo(k1.airspeed, Unit \div 10),
                                 RoundTo(k1.heading, Unit \div 10),
                                 RoundTo(k1.vertical_speed, Unit \div 10),
                                 now)]

\* append_history with pop() in place of pop(0): the newest sample is evicted
append_history_newest(h, new_data) ==
    LET h1 == Append(h, new_data)
    IN  IF Len(h1) > max_history THEN SubSeq(h1, 1, Len(h1) - 1) ELSE h1

\* self.history.append(new_data), then pop(0) past max_history
append_history(h, new_data) ==
    LET h1 == Append(h, new_data)
    IN  IF Len(h1) > max_history THEN Tail(h1) ELSE h1

\* seq[start:] of Python
SliceFrom(seq, start) ==
    LET from == IF start < 0 THEN Max(Len(seq) + start, 0) ELSE Min(start, Len(seq))
    IN  SubSeq(seq, from + 1, Len(seq))

\* limit: [given |-> FALSE] for None, else [given |-> TRUE, n |-> the integer]
get_history(h, limit) ==
    IF ~limit.given THEN h ELSE SliceFrom(h, -limit.n)


-----------------------------------------------------------------------------
(* The generator: calls of FlightDataGenerator                             *)

\* number of samples generated in the runs of SpecGen
MaxSamples == 2

\* draws of the nine random.uniform calls: all at the lower end, all zero, all
\* at the upper end, and a mixed one
DrawInputs ==
    {[x \in DOMAIN UniformRange |-> n * UniformRange[x]] : n \in {-1, 0, 1}}
    \cup {[latitude |-> UniformRange.latitude, longitude |-> -UniformRange.longitude,
           altitude |-> -UniformRange.altitude, airspeed |-> UniformRange.airspeed,
           heading |-> 3 * (Unit \div 10), vertical_speed |-> 0,
           heading_change_rate |-> -UniformRange.heading_change_rate,
           altitude_change_rate |-> UniformRange.altitude_change_rate \div 2,
           speed_change_rate |-> -UniformRange.speed_change_rate]}

\* arguments of set_flight_parameters: <<heading_change, altitude_change, speed_change>>
RateInputs ==
    {<<899 * (Unit \div 10), -100000 * Unit, 100000 * Unit>>,
     <<-1000 * Unit, 100000 * Unit, -100000 * Unit>>}

\* arguments of reset_position: <<latitude, longitude>>
PositionInputs ==
    {<<401281 * (DegUnit \div 10000), 329951 * (DegUnit \div 10000)>>,
     <<1000 * DegUnit, -1000 * DegUnit>>}

\* arguments of get_history
LimitInputs ==
    {[given |-> FALSE, n |-> 0]}
    \cup {[given |-> TRUE, n |-> n] : n \in {0, 1, 2, max_history, max_history + 1, -1}}

SetKin(k) ==
    /\ current_latitude' = k.latitude
    /\ current_longitude' = k.longitude
    /\ current_altitude' = k.altitude
    /\ current_airspeed' = k.airspeed
    /\ current_heading' = k.heading
    /\ current_vertical_speed' = k.vertical_speed
    /\ heading_change_rate' = k.heading_change_rate
    /\ altitude_change_rate' = k.altitude_change_rate
    /\ speed_change_rate' = k.speed_change_rate

\* generator.generate_flight_data() with the draws d
GenerateFlightData(d) ==
    LET g == generate(Kin, d, clock)
    IN  /\ op = "none"
        /\ SetKin(g.kin)
        /\ history' = append_history(history, g.new_data)
        /\ current_data' = g.new_data
        /\ produced' = Append(produced, g.new_data)
        /\ clock' = clock + 1
        /\ op' = "generate_flight_data"
        /\ arg' = <<>>
        /\ ret' = g.new_data
        /\ UNCHANGED <<navVars, twin, codecVars, srvVars>>

\* the raw_data dictionary of generate_arinc429_data: "label_<label>" -> the word
raw_data(arinc_messages) ==
    [l \in {arinc_messages[i].label : i \in 1..Len(arinc_messages)} |->
        LET i == CHOOSE j \in 1..Len(arinc_messages) :
                    /\ arinc_messages[j].label = l
                    /\ \A n \in j + 1..Len(arinc_messages) : arinc_messages[n].label # l
        IN  arinc_messages[i]]

\* generate_arinc429_data with the draws d at time now, from kinematic state k
\* and encoder scratch ssm0: the new state, the sample, self.encoder.ssm and
\* the ARINC429Data returned
generate_arinc429_data(k, d, now, sdi0, ssm0) ==
    LET g == generate(k, d, now)
        e == encode_flight_data(g.new_data, sdi0, ssm0)
    IN  [kin |-> g.kin, new_data |-> g.new_data, ssm |-> e.ssm,
         data |-> [flight_data |-> g.new_data, arinc_messages |-> e.messages,
                   raw_data |-> raw_data(e.messages)]]

\* the writes of one generate_arinc429_data call whose outcome is r
StoreGenerated(r) ==
    /\ SetKin(r.kin)
    /\ history' = append_history(history, r.new_data)
    /\ current_data' = r.new_data
    /\ produced' = Append(produced, r.new_data)
    /\ clock' = clock + 1
    /\ ssm' = r.ssm
    /\ UNCHANGED <<navVars, twin>>

\* generator.generate_arinc429_data() with the draws d
GenerateArinc429Data(d) ==
    /\ op = "none"
    /\ \E r \in {generate_arinc429_data(Kin, d, clock, sdi, ssm)} :
          /\ StoreGenerated(r)
          /\ ret' = r.data
    /\ op' = "generate_arinc429_data"
    /\ arg' = <<>>
    /\ UNCHANGED <<sdi, calls, srvVars>>

\* generator.get_current_data()
GetCurrentData ==
    /\ op = "none"
    /\ op' = "get_current_data"
    /\ arg' = <<>>
    /\ ret' = current_data
    /\ UNCHANGED <<codecVars, genVars, srvVars>>

\* generator.get_history(limit)
GetHistory ==
    /\ op = "none"
    /\ \E limit \in LimitInputs :
        /\ op' = "get_history"
        /\ arg' = limit
        /\ ret' = get_history(history, limit)
    /\ UNCHANGED <<codecVars, genVars, srvVars>>

\* reset_position that also publishes the reset state as a new sample
ResetPosition_publish ==
    /\ op = "none"
    /\ \E p \in PositionInputs :
        /\ current_latitude' = p[1]
        /\ current_longitude' = p[2]
        /\ current_data' = FlightData(p[1], p[2], 35000 * Unit, 450 * Unit, 270 * Unit, 0, clock)
        /\ op' = "reset_position"
        /\ arg' = p
    /\ current_altitude' = 35000 * Unit
    /\ current_airspeed' = 450 * Unit
    /\ current_heading' = 270 * Unit
    /\ current_vertical_speed' = 0
    /\ ret' = <<>>
    /\ UNCHANGED <<heading_change_rate, altitude_change_rate, speed_change_rate,
                   history, clock, produced, navVars, twin, codecVars, srvVars>>

\* generator.reset_position(latitude, longitude)
ResetPosition ==
    /\ op = "none"
    /\ \E p \in PositionInputs :
        /\ current_latitude' = p[1]
        /\ current_longitude' = p[2]
        /\ op' = "reset_position"
        /\ arg' = p
    /\ current_altitude' = 35000 * Unit
    /\ current_airspeed' = 450 * Unit
    /\ current_heading' = 270 * Unit
    /\ current_vertical_speed' = 0
    /\ ret' = <<>>
    /\ UNCHANGED <<heading_change_rate, altitude_change_rate, speed_change_rate,
                   current_data, history, clock, produced, navVars, twin, codecVars, srvVars>>

\* generator.set_flight_parameters(heading_change, altitude_change, speed_change)
SetFlightParameters ==
    /\ op = "none"
    /\ \E r \in RateInputs :
        /\ heading_change_rate' = r[1]
        /\ altitude_change_rate' = r[2]
        /\ speed_change_rate' = r[3]
        /\ op' = "set_flight_parameters"
        /\ arg' = r
    /\ ret' = <<>>
    /\ UNCHANGED <<current_latitude, current_longitude, current_altitude,
                   current_airspeed, current_heading, current_vertical_speed,
                   current_data, history, clock, produced, navVars, twin, codecVars, srvVars>>

NextGen ==
    \/ \E d \in DrawInputs : clock <= MaxSamples /\ GenerateFlightData(d)
    \/ \E d \in DrawInputs : clock <= MaxSamples /\ GenerateArinc429Data(d)
    \/ GetCurrentData
    \/ GetHistory
    \/ ResetPosition
    \/ SetFlightParameters
    \/ Return

SpecGen == Init /\ [][NextGen]_vars


-----------------------------------------------------------------------------
(* The history past its capacity: one long run of the generator            *)

\* number of samples generated beyond max_history in the runs of SpecHist
MaxOver == 3

\* the draws of every call of this run: all zero
SteadyDraw == [x \in DOMAIN UniformRange |-> 0]

NextHist ==
    \/ clock <= max_history + MaxOver /\ GenerateFlightData(SteadyDraw)
    \/ clock <= max_history + MaxOver /\ GenerateArinc429Data(SteadyDraw)
    \/ GetHistory
    \/ Return

SpecHist == Init /\ [][NextHist]_vars

-----------------------------------------------------------------------------
(* Properties of the generator                                             *)

\* the last n elements of a sequence, in order
LastN(seq, n) == [i \in 1..n |-> seq[Len(seq) - n + i]]

\* C8 (as claimed): every sample produced has each field inside its envelope,
\* heading in [0,360) with 360 excluded.
C8_Envelope ==
    \A i \in 1..Len(produced) : \A f \in FieldSet : InEnvelope(f, produced[i][f])

\* C9: the history holds at most max_history samples and is exactly the most
\* recently produced min(count, max_history) samples, oldest first.
C9_HistoryBound ==
    /\ Len(history) <= max_history
    /\ history = LastN(produced, Min(Len(produced), max_history))

\* C9 witness: more samples were produced than the history holds, and a sample
\* was evicted.
C9_Witness ==
    /\ Len(produced) = max_history + 2
    /\ Len(history) = max_history
    /\ history[1] = produced[3]

\* C10 (as claimed): get_history(limit) with limit >= 0 returns the
\* min(limit, length) most recent samples, so none for limit 0; without a
\* limit it returns the whole history.
C10_GetHistory ==
    op = "get_history"
        => IF ~arg.given THEN ret = history
           ELSE arg.n >= 0 => ret = LastN(history, Min(arg.n, Len(history)))

\* C10, the part that holds: get_history changes neither the history, the
\* current sample nor the kinematic state.
C10_Frame == [][op' = "get_history" => UNCHANGED genVars]_vars


-----------------------------------------------------------------------------
(* api_server.py: ARINC429APIServer, the registries and the tick loop      *)
(*                                                                         *)
(* _data_generation_loop runs in a thread of its own, one per successful   *)
(* start_data_generation; connect, disconnect and the HTTP endpoints run   *)
(* in the server's thread and interleave with the loop between any two of  *)
(* its steps.  A connection (a WebSocket object) is named by the order of  *)
(* its acceptance, a sample by the order of its production.                *)

\* connections accepted in a run
MaxConnections == 3
\* ticks begun in a run
MaxTicks == 2
\* entries of external_configs at a time
MaxSinks == 2

Elems(seq) == {seq[i] : i \in 1..Len(seq)}

\* list.remove(x): the list without the first x
ListRemove(seq, x) ==
    LET i == CHOOSE j \in 1..Len(seq) : seq[j] = x /\ \A n \in 1..(j - 1) : seq[n] # x
    IN  SubSeq(seq, 1, i - 1) \o SubSeq(seq, i + 1, Len(seq))

\* list.pop(index) for 0 <= index < len: the list left
ListPop(seq, index) == SubSeq(seq, 1, index) \o SubSeq(seq, index + 2, Len(seq))

\* disconnect_websocket: self.active_connections afterwards
disconnect_websocket(connections, websocket) ==
    IF websocket \in Elems(connections) THEN ListRemove(connections, websocket)
    ELSE connections

\* a thread that has been started and has not left _data_generation_loop
Alive(t) == pc[t] \notin {"no_thread", "done"}

\* no loop thread is running: none was started yet, or the last one has ended
NoLoopAlive == \A t \in Threads : ~Alive(t)

\* the sample a loop thread is fanning out, by the order of its production
TickOf(t) == arinc_data[t].flight_data.timestamp

\* the urls of the enabled entries of a sink registry
EnabledUrls(configs) == {configs[i].url : i \in {j \in 1..Len(configs) : configs[j].enabled}}

regVars == <<active_connections, external_configs, running>>

loopVars == <<pc, arinc_data, idx, disconnected>>

logVars == <<tick, received, attempts, failed, tick_subs, dropped, tick_sinks>>

\* connect_websocket(websocket), called by websocket_endpoint
ConnectWebsocket ==
    /\ fresh < MaxConnections
    /\ fresh' = fresh + 1
    /\ active_connections' = Append(active_connections, fresh + 1)
    /\ received' = Append(received, <<>>)
    /\ dropped' = Append(dropped, 0)
    /\ mutated' = TRUE
    /\ UNCHANGED <<external_configs, running, loopVars, tick, attempts, failed, tick_subs,
                   tick_sinks, codecVars, callVars, genVars>>

\* disconnect_websocket(websocket), called by websocket_endpoint when its
\* connection ends (a call for a connection no longer in the list changes nothing)
DisconnectWebsocket ==
    /\ \E websocket \in Elems(active_connections) :
          active_connections' = disconnect_websocket(active_connections, websocket)
    /\ mutated' = TRUE
    /\ UNCHANGED <<external_configs, running, loopVars, logVars, fresh,
                   codecVars, callVars, genVars>>

\* the configurations added: of the first system with interval 1, enabled or
\* not, of the second with interval 3600 (ExternalConfig: 1 <= interval <= 3600)
SinkInputs ==
    {[url |-> 1, interval |-> 1, enabled |-> TRUE],
     [url |-> 1, interval |-> 1, enabled |-> FALSE],
     [url |-> 2, interval |-> 3600, enabled |-> TRUE]}

\* POST /api/external-config; the urls in the registry are kept distinct by
\* the caller, so that a url names a sink
AddExternalConfig ==
    /\ op = "none"
    /\ Len(external_configs) < MaxSinks
    /\ \E config \in SinkInputs :
          /\ \A i \in 1..Len(external_configs) : external_configs[i].url # config.url
          /\ external_configs' = Append(external_configs, config)
    /\ op' = "add_external_config"
    /\ arg' = <<>>
    /\ ret' = [status_code |-> 200]
    /\ UNCHANGED <<active_connections, running, loopVars, logVars, fresh, mutated,
                   codecVars, genVars>>

\* DELETE /api/external-config/{index}: the HTTPException(404) of the else
\* branch is raised inside the try and caught by its `except Exception`, which
\* raises HTTPException(500)
RemoveExternalConfig ==
    /\ op = "none"
    /\ \E index \in -1..MaxSinks :
        /\ arg' = [index |-> index, configs |-> external_configs]
        /\ IF 0 <= index /\ index < Len(external_configs)
           THEN /\ external_configs' = ListPop(external_configs, index)
                /\ tick_sinks' = tick_sinks \ {external_configs[index + 1].url}
                /\ ret' = [status_code |-> 200]
           ELSE /\ external_configs' = external_configs
                /\ tick_sinks' = tick_sinks
                /\ ret' = [status_code |-> 500]
    /\ op' = "remove_external_config"
    /\ UNCHANGED <<active_connections, running, loopVars, tick, received, attempts, failed,
                   tick_subs, dropped, fresh, mutated, codecVars, genVars>>

\* Python's None
None == <<>>

\* the handler of GET /api/current-data on what get_current_data() returned,
\* a FlightData or None: the HTTPException(404) of the else branch is raised
\* inside the try block, caught by `except Exception` and replaced by an
\* HTTPException(500)
get_current_data_route(current) ==
    IF current # None
    THEN [status_code |-> 200, data |-> current]
    ELSE [status_code |-> 500, data |-> None]

\* GET /api/current-data
GetCurrentDataEndpoint ==
    /\ op = "none"
    /\ op' = "api_current_data"
    /\ arg' = <<>>
    /\ ret' = get_current_data_route(current_data)
    /\ UNCHANGED <<codecVars, genVars, srvVars>>

\* the same handler on a generator whose get_current_data() returns `current`:
\* the declared Optional[FlightData] is None until _generate_initial_data has
\* run, which it has in every server that is serving
GetCurrentDataRoute ==
    /\ op = "none"
    /\ \E current \in {None, current_data} :
          /\ arg' = [current |-> current]
          /\ ret' = get_current_data_route(current)
    /\ op' = "route_current_data"
    /\ UNCHANGED <<codecVars, genVars, srvVars>>

\* GET /api/historical-data?limit=..., limit 100 when the query gives none
GetHistoricalDataEndpoint ==
    /\ op = "none"
    /\ \E limit \in {l \in LimitInputs : l.given} \cup {[given |-> TRUE, n |-> 100]} :
          /\ arg' = limit
          /\ ret' = [status_code |-> 200, data |-> get_history(history, limit)]
    /\ op' = "api_historical_data"
    /\ UNCHANGED <<codecVars, genVars, srvVars>>

\* GET /api/arinc429-data with the draws d: calls generate_arinc429_data, as a
\* tick does
GetArinc429DataEndpoint(d) ==
    /\ op = "none"
    /\ \E r \in {generate_arinc429_data(Kin, d, clock, sdi, ssm)} :
          /\ StoreGenerated(r)
          /\ ret' = [status_code |-> 200, data |-> r.data]
    /\ op' = "api_arinc429_data"
    /\ arg' = <<>>
    /\ UNCHANGED <<sdi, calls, srvVars>>

\* start_data_generation, called when no other call is in progress: when the
\* flag is clear, sets it and starts a new thread (t is the thread's slot in
\* the model: the lowest one free)
StartDataGeneration ==
    /\ op = "none"
    /\ ~running
    /\ \E t \in Threads :
          /\ ~Alive(t)
          /\ \A u \in 1..(t - 1) : Alive(u)
          /\ pc' = [pc EXCEPT ![t] = "loop"]
    /\ running' = TRUE
    /\ UNCHANGED <<active_connections, external_configs, arinc_data, idx, disconnected,
                   logVars, fresh, mutated, codecVars, callVars, genVars>>

\* stop_data_generation: clears the flag and begins to join the thread
StopDataGeneration ==
    /\ op = "none"
    /\ running
    /\ running' = FALSE
    /\ op' = "stop_data_generation"
    /\ arg' = <<>>
    /\ ret' = <<>>
    /\ UNCHANGED <<active_connections, external_configs, loopVars, logVars, fresh, mutated,
                   codecVars, genVars>>

\* self.data_thread.join(timeout=5) returns and stop_data_generation with it:
\* the thread has ended, or 5 s have passed with the thread inside a step that
\* can last that long (a send, a delivery with its 10 s timeout)
JoinReturns ==
    /\ op = "stop_data_generation"
    /\ \/ NoLoopAlive
       \/ \E t \in Threads : pc[t] \in {"send", "stalled", "posting"}
    /\ op' = "none"
    /\ arg' = <<>>
    /\ ret' = <<>>
    /\ UNCHANGED <<codecVars, genVars, srvVars>>

\* while self.running
LoopCheck(t) ==
    /\ pc[t] = "loop"
    /\ pc' = [pc EXCEPT ![t] = IF running THEN "generate" ELSE "done"]
    /\ UNCHANGED <<regVars, arinc_data, idx, disconnected, logVars, fresh, mutated,
                   codecVars, callVars, genVars>>

\* arinc_data = self.data_generator.generate_arinc429_data()
TickGenerate(t) ==
    /\ pc[t] = "generate"
    /\ tick < MaxTicks
    /\ \E r \in {generate_arinc429_data(Kin, SteadyDraw, clock, sdi, ssm)} :
          /\ StoreGenerated(r)
          /\ arinc_data' = [arinc_data EXCEPT ![t] = r.data]
    /\ tick' = tick + 1
    /\ tick_sinks' = EnabledUrls(external_configs)
    /\ pc' = [pc EXCEPT ![t] = "broadcast"]
    /\ UNCHANGED <<regVars, idx, disconnected, fresh, received, attempts, failed, tick_subs,
                   mutated, dropped, sdi, calls, callVars>>

\* generate_arinc429_data raises: the `except Exception` of the loop logs it
\* and sleeps, and the while goes on
TickRaises(t) ==
    /\ pc[t] = "generate"
    /\ pc' = [pc EXCEPT ![t] = "sleep"]
    /\ UNCHANGED <<regVars, arinc_data, idx, disconnected, logVars, fresh, mutated,
                   codecVars, callVars, genVars>>

\* broadcast_data up to the for loop: returns at once when nobody is connected
BroadcastBegin(t) ==
    /\ pc[t] = "broadcast"
    /\ IF active_connections = <<>>
       THEN /\ pc' = [pc EXCEPT ![t] = "external"]
            /\ disconnected' = disconnected
       ELSE /\ pc' = [pc EXCEPT ![t] = "send"]
            /\ disconnected' = [disconnected EXCEPT ![t] = <<>>]
    /\ idx' = [idx EXCEPT ![t] = 0]
    /\ tick_subs' = active_connections
    /\ failed' = {}
    /\ mutated' = FALSE
    /\ UNCHANGED <<regVars, arinc_data, tick, fresh, received, attempts, dropped, tick_sinks,
                   codecVars, callVars, genVars>>

\* one pass of `for connection in self.active_connections` whose send_text returns
SendText(t) ==
    /\ pc[t] = "send"
    /\ idx[t] < Len(active_connections)
    /\ received' = [received EXCEPT ![active_connections[idx[t] + 1]] = Append(@, TickOf(t))]
    /\ idx' = [idx EXCEPT ![t] = @ + 1]
    /\ UNCHANGED <<regVars, pc, arinc_data, disconnected, tick, fresh, attempts, failed,
                   tick_subs, mutated, dropped, tick_sinks, codecVars, callVars, genVars>>

\* a broadcaster that gives up the traversal at the first send_text that raises
SendFails_abort(t) ==
    /\ pc[t] = "send"
    /\ idx[t] < Len(active_connections)
    /\ disconnected' = [disconnected EXCEPT ![t] = Append(@, active_connections[idx[t] + 1])]
    /\ failed' = failed \cup {active_connections[idx[t] + 1]}
    /\ idx' = [idx EXCEPT ![t] = 0]
    /\ pc' = [pc EXCEPT ![t] = "cleanup"]
    /\ UNCHANGED <<regVars, arinc_data, tick, fresh, received, attempts, tick_subs, mutated,
                   dropped, tick_sinks, codecVars, callVars, genVars>>

\* one pass whose send_text raises: the connection is noted in `disconnected`
SendFails(t) ==
    /\ pc[t] = "send"
    /\ idx[t] < Len(active_connections)
    /\ disconnected' = [disconnected EXCEPT ![t] = Append(@, active_connections[idx[t] + 1])]
    /\ failed' = failed \cup {active_connections[idx[t] + 1]}
    /\ idx' = [idx EXCEPT ![t] = @ + 1]
    /\ UNCHANGED <<regVars, pc, arinc_data, tick, fresh, received, attempts, tick_subs,
                   mutated, dropped, tick_sinks, codecVars, callVars, genVars>>

\* one pass whose `await connection.send_text(message)` never completes: the
\* await has no timeout and the traversal is sequential
SendStalls(t) ==
    /\ pc[t] = "send"
    /\ idx[t] < Len(active_connections)
    /\ idx' = [idx EXCEPT ![t] = @ + 1]
    /\ pc' = [pc EXCEPT ![t] = "stalled"]
    /\ UNCHANGED <<regVars, arinc_data, disconnected, logVars, fresh, mutated,
                   codecVars, callVars, genVars>>

\* the for loop over self.active_connections is exhausted
SendDone(t) ==
    /\ pc[t] = "send"
    /\ idx[t] >= Len(active_connections)
    /\ pc' = [pc EXCEPT ![t] = "cleanup"]
    /\ idx' = [idx EXCEPT ![t] = 0]
    /\ UNCHANGED <<regVars, arinc_data, disconnected, logVars, fresh, mutated,
                   codecVars, callVars, genVars>>

\* one pass of `for connection in disconnected`: disconnect_websocket(connection)
CleanupRemove(t) ==
    /\ pc[t] = "cleanup"
    /\ idx[t] < Len(disconnected[t])
    /\ active_connections' = disconnect_websocket(active_connections, disconnected[t][idx[t] + 1])
    /\ dropped' = [dropped EXCEPT ![disconnected[t][idx[t] + 1]] = TickOf(t)]
    /\ idx' = [idx EXCEPT ![t] = @ + 1]
    /\ UNCHANGED <<external_configs, running, pc, arinc_data, disconnected, tick, fresh,
                   received, attempts, failed, tick_subs, mutated, tick_sinks,
                   codecVars, callVars, genVars>>

\* broadcast_data returns
CleanupDone(t) ==
    /\ pc[t] = "cleanup"
    /\ idx[t] >= Len(disconnected[t])
    /\ pc' = [pc EXCEPT ![t] = "external"]
    /\ idx' = [idx EXCEPT ![t] = 0]
    /\ UNCHANGED <<regVars, arinc_data, disconnected, logVars, fresh, mutated,
                   codecVars, callVars, genVars>>

\* one pass of `for config in self.external_configs` for a disabled entry
ExternalSkip(t) ==
    /\ pc[t] = "external"
    /\ idx[t] < Len(external_configs)
    /\ ~external_configs[idx[t] + 1].enabled
    /\ idx' = [idx EXCEPT ![t] = @ + 1]
    /\ UNCHANGED <<regVars, pc, arinc_data, disconnected, logVars, fresh, mutated,
                   codecVars, callVars, genVars>>

\* a delivery whose transport error is not caught per sink: it ends the
\* traversal and the loop's handler sleeps
ExternalPost_fatal(t) ==
    /\ pc[t] = "external"
    /\ idx[t] < Len(external_configs)
    /\ external_configs[idx[t] + 1].enabled
    /\ \E outcome \in {"200", "500", "raised"} :
          /\ attempts' = Append(attempts, <<TickOf(t), external_configs[idx[t] + 1].url, outcome>>)
          /\ pc' = [pc EXCEPT ![t] = IF outcome = "raised" THEN "sleep" ELSE "posting"]
    /\ idx' = [idx EXCEPT ![t] = @ + 1]
    /\ UNCHANGED <<regVars, arinc_data, disconnected, tick, fresh, received, failed,
                   tick_subs, mutated, dropped, tick_sinks, codecVars, callVars, genVars>>

\* one pass for an enabled entry, up to the call of requests.post(..., timeout=10):
\* the thread waits in the call.  The call will answer 200, answer another
\* status, or raise; the attempt is logged here with the outcome it will have
ExternalPost(t) ==
    /\ pc[t] = "external"
    /\ idx[t] < Len(external_configs)
    /\ external_configs[idx[t] + 1].enabled
    /\ \E outcome \in {"200", "500", "raised"} :
          attempts' = Append(attempts, <<TickOf(t), external_configs[idx[t] + 1].url, outcome>>)
    /\ idx' = [idx EXCEPT ![t] = @ + 1]
    /\ pc' = [pc EXCEPT ![t] = "posting"]
    /\ UNCHANGED <<regVars, arinc_data, disconnected, tick, fresh, received, failed,
                   tick_subs, mutated, dropped, tick_sinks, codecVars, callVars, genVars>>

\* requests.post returns or raises: the outcome is logged (info, warning or
\* error) and the for loop goes on
ExternalResponse(t) ==
    /\ pc[t] = "posting"
    /\ pc' = [pc EXCEPT ![t] = "external"]
    /\ UNCHANGED <<regVars, arinc_data, idx, disconnected, logVars, fresh, mutated,
                   codecVars, callVars, genVars>>

\* _send_to_external_systems returns
ExternalDone(t) ==
    /\ pc[t] = "external"
    /\ idx[t] >= Len(external_configs)
    /\ pc' = [pc EXCEPT ![t] = "sleep"]
    /\ idx' = [idx EXCEPT ![t] = 0]
    /\ UNCHANGED <<regVars, arinc_data, disconnected, logVars, fresh, mutated,
                   codecVars, callVars, genVars>>

\* time.sleep(1)
Sleep(t) ==
    /\ pc[t] = "sleep"
    /\ pc' = [pc EXCEPT ![t] = "loop"]
    /\ UNCHANGED <<regVars, arinc_data, idx, disconnected, logVars, fresh, mutated,
                   codecVars, callVars, genVars>>

\* the steps of _data_generation_loop that do not depend on who listens
LoopStep(t) ==
    \/ LoopCheck(t)
    \/ TickGenerate(t)
    \/ BroadcastBegin(t)
    \/ ExternalDone(t)
    \/ Sleep(t)

\* the steps of broadcast_data over the connections
FanoutStep(t) ==
    \/ SendText(t)
    \/ SendFails(t)
    \/ SendDone(t)
    \/ CleanupRemove(t)
    \/ CleanupDone(t)

\* the steps of _send_to_external_systems over the configurations
SinkStep(t) ==
    \/ ExternalSkip(t)
    \/ ExternalPost(t)
    \/ ExternalResponse(t)

\* the steps of a loop thread other than the generation of the sample
TickRest(t) ==
    \/ LoopCheck(t)
    \/ BroadcastBegin(t)
    \/ ExternalDone(t)
    \/ Sleep(t)
    \/ FanoutStep(t)
    \/ SinkStep(t)

\* start_data_generation has not been called yet
Unstarted == \A t \in Threads : pc[t] = "no_thread"

\* the server with WebSocket clients coming and going and no external system
\* configured (external_configs is empty at construction and only the
\* configuration endpoints change it); a start follows a stop when the
\* stopped loop has ended, as in run()
NextFanout ==
    \/ ConnectWebsocket
    \/ DisconnectWebsocket
    \/ StartDataGeneration /\ NoLoopAlive
    \/ StopDataGeneration
    \/ JoinReturns
    \/ \E t \in Threads : LoopStep(t)
    \/ \E t \in Threads : FanoutStep(t)

SpecFanout == Init /\ [][NextFanout]_vars

\* the server with external systems configured and reconfigured and no
\* WebSocket client (broadcast_data returns at once)
NextSinks ==
    \/ AddExternalConfig
    \/ RemoveExternalConfig
    \/ Return
    \/ StartDataGeneration /\ NoLoopAlive
    \/ StopDataGeneration
    \/ JoinReturns
    \/ \E t \in Threads : LoopStep(t)
    \/ \E t \in Threads : SinkStep(t)

SpecSinks == Init /\ [][NextSinks]_vars

\* the server of SpecFanout with connections whose send may never complete;
\* a loop thread that can take a step of its tick eventually takes one
NextStall ==
    \/ NextFanout
    \/ \E t \in Threads : SendStalls(t)

SpecStall ==
    /\ Init
    /\ [][NextStall]_vars
    /\ \A t \in Threads : WF_vars(TickRest(t))

\* the server with the connections made before the first start, and
\* start_data_generation called at any time, also after a stop whose join gave
\* up before the stopped loop ended
NextRestart ==
    \/ ConnectWebsocket /\ Unstarted
    \/ StartDataGeneration
    \/ StopDataGeneration
    \/ JoinReturns
    \/ \E t \in Threads : LoopStep(t)
    \/ \E t \in Threads : FanoutStep(t)

SpecRestart == Init /\ [][NextRestart]_vars

\* the server with its query endpoints called while the loop runs, nobody
\* connected and nothing configured
NextApi ==
    \/ GetCurrentDataEndpoint
    \/ GetHistoricalDataEndpoint
    \/ \E d \in DrawInputs : clock <= MaxSamples /\ GetArinc429DataEndpoint(d)
    \/ Return
    \/ StartDataGeneration /\ NoLoopAlive
    \/ StopDataGeneration
    \/ JoinReturns
    \/ \E t \in Threads : LoopStep(t)

SpecApi == Init /\ [][NextApi]_vars

\* the server with the connections made and the external systems configured
\* before the loop is started, every send, delivery and generation free to
\* fail; a loop thread that can take a step of its tick eventually takes one
NextServe ==
    \/ ConnectWebsocket /\ Unstarted
    \/ AddExternalConfig /\ Unstarted
    \/ Return
    \/ StartDataGeneration /\ NoLoopAlive
    \/ StopDataGeneration
    \/ JoinReturns
    \/ \E t \in Threads : LoopStep(t)
    \/ \E t \in Threads : TickRaises(t)
    \/ \E t \in Threads : FanoutStep(t)
    \/ \E t \in Threads : SinkStep(t)

SpecServe ==
    /\ Init
    /\ [][NextServe]_vars
    /\ \A t \in Threads : WF_vars(TickRest(t))

-----------------------------------------------------------------------------
(* Properties of the broadcaster                                           *)

\* how many times x occurs in seq
Count(seq, x) == Cardinality({i \in 1..Len(seq) : seq[i] = x})

\* the latest tick's broadcast_data has returned
FanoutDone == tick >= 1 /\ \A t \in Threads : pc[t] \notin {"broadcast", "send", "stalled", "cleanup"}

\* C7: fan-out isolation.  When a tick's broadcast went over N registered
\* connections, none connecting or disconnecting meanwhile, and the send to
\* exactly one of them raised, each of the other N-1 was sent that tick's
\* message exactly once, the failing one was sent none and is out of
\* active_connections, and N-1 connections remain, the same ones in the same
\* order.  A connection removed after a failed send is never in
\* active_connections again and is sent no later tick's message.
C7_FanOutIsolation ==
    /\ (FanoutDone /\ ~mutated /\ Cardinality(failed) = 1) =>
          /\ \A s \in Elems(tick_subs) \ failed : Count(received[s], tick) = 1
          /\ \A s \in failed :
                /\ s \in Elems(tick_subs)
                /\ s \notin Elems(active_connections)
                /\ Count(received[s], tick) = 0
                /\ active_connections = ListRemove(tick_subs, s)
          /\ Len(active_connections) = Len(tick_subs) - 1
    /\ \A s \in 1..fresh :
          dropped[s] > 0 =>
             /\ s \notin Elems(active_connections)
             /\ \A i \in 1..Len(received[s]) : received[s][i] < dropped[s]

\* the second tick went over two connections of which one failed, after a
\* connection that had failed in the first tick was removed
C7_Witness ==
    /\ FanoutDone
    /\ tick = 2
    /\ ~mutated
    /\ Cardinality(failed) = 1
    /\ Len(tick_subs) = 2
    /\ \E s \in 1..fresh : dropped[s] = 1 /\ s \notin Elems(tick_subs)
    /\ \E s \in Elems(tick_subs) \ failed : received[s] = <<1, 2>>

\* the attempts at delivering sample n to the sink named url
AttemptsOf(n, url) == {i \in 1..Len(attempts) : attempts[i][1] = n /\ attempts[i][2] = url}

\* thread t has done the fan-out and the deliveries of the sample it holds
TickOver(t) == pc[t] = "sleep" /\ arinc_data[t] # <<>>

\* a loop thread waits in a send that never completes
Stalled == \E t \in Threads : pc[t] = "stalled"

\* a connection registered behind the one a thread is stalled on has not been
\* sent the message of that thread's tick
StalledBehind ==
    \E t \in Threads :
       /\ pc[t] = "stalled"
       /\ \E i \in (idx[t] + 1)..Len(active_connections) :
             Count(received[active_connections[i]], TickOf(t)) = 0

\* C11: a stalled connection delays nobody.  When the send to a connection
\* never completes, the connections registered behind it do not stay without
\* that tick's message, and the loop thread does not stay in the send: it goes
\* on to the rest of its tick and to the next one.
C11_StallIsolated ==
    /\ StalledBehind ~> ~StalledBehind
    /\ Stalled ~> ~Stalled

\* C12: one delivery attempt per enabled sink and tick.  When a tick is over,
\* every url that was enabled in the registry from the tick's beginning to its
\* end has exactly one attempt for that tick's sample, whatever its interval and
\* whatever the attempt's outcome; and an attempt is only ever made to a sink
\* that is enabled, with the sample of the tick being run.
C12_OncePerTick ==
    /\ [](\A t \in Threads :
             TickOver(t) /\ TickOf(t) = tick =>
                \A url \in tick_sinks : Cardinality(AttemptsOf(tick, url)) = 1)
    /\ [][attempts' # attempts =>
             /\ Len(attempts') = Len(attempts) + 1
             /\ attempts'[Len(attempts')][2] \in EnabledUrls(external_configs)
             /\ \E t \in Threads : pc[t] = "external" /\ attempts'[Len(attempts')][1] = TickOf(t)
         ]_vars

\* the positions of a loop thread inside a tick, after the sample's generation
TickPositions == {"broadcast", "send", "cleanup", "external", "posting", "sleep"}

\* C13: no failure is fatal to the tick.  With the registries as they were
\* when the loop started: when a tick is over every enabled sink has exactly
\* one delivery attempt for it, whatever the outcomes of the attempts to the
\* other sinks and of the sends to the connections were; a loop thread ends
\* only at its while-test, with the running flag cleared; and a thread that is
\* inside a tick, or whose generation raised, gets to the next tick's
\* generation unless the flag was cleared.
C13_NeverFatal ==
    /\ [](\A t \in Threads :
             TickOver(t) =>
                \A url \in EnabledUrls(external_configs) :
                   Cardinality(AttemptsOf(TickOf(t), url)) = 1)
    /\ [][\A t \in Threads :
             pc'[t] = "done" /\ pc[t] # "done" => pc[t] = "loop" /\ ~running]_vars
    /\ \A t \in Threads : (pc[t] \in TickPositions) ~> (pc[t] \in {"generate", "done"})

\* the second tick has begun after a first one in which the delivery to the
\* first sink raised, the second sink answered 500 and a send failed
C13_Witness ==
    /\ tick = 2
    /\ \E t \in Threads : pc[t] = "broadcast"
    /\ \E i, j \in 1..Len(attempts) :
          /\ i < j
          /\ attempts[i] = <<1, 1, "raised">>
          /\ attempts[j] = <<1, 2, "500">>
    /\ \E s \in 1..fresh : dropped[s] = 1

\* C14: the loop never waits for a sink.  While a delivery is outstanding
\* (requests.post has been called and has not returned), the thread that made
\* it can go on without the answer: to the delivery to the next sink, or to the
\* end of the deliveries and from there to the next tick's simulation step.
C14_NonBlocking ==
    \A t \in Threads :
       pc[t] = "posting" =>
          ENABLED (ExternalPost(t) \/ ExternalSkip(t) \/ ExternalDone(t))

\* C15: the tick loop is the sole writer of the simulator state.  Every sample
\* ever produced after the initial one was produced by a tick, and no query
\* endpoint (current sample, history, ARINC 429 encoding) changes the kinematic
\* state, the current sample or the history.
C15_SoleWriter ==
    /\ [](Len(produced) = tick + 1)
    /\ [][op = "none" /\ op' \in {"api_current_data", "api_historical_data", "api_arinc429_data"}
             => UNCHANGED genVars]_vars

\* C16: registry mutual exclusion.  While a loop thread is inside its
\* traversal of active_connections (it has taken an item and has not left the
\* for loop) no step changes that list, and while it is inside its traversal
\* of external_configs no step changes that list.
C16_Snapshot ==
    [][/\ (\E t \in Threads : pc[t] = "send" /\ idx[t] > 0)
             => active_connections' = active_connections
       /\ (\E t \in Threads : pc[t] \in {"external", "posting"} /\ idx[t] > 0)
             => external_configs' = external_configs]_vars

\* C17: stopping the broadcaster.  When stop_data_generation returns, no loop
\* thread is running and both registries are empty.
C17_Stop ==
    [][op = "stop_data_generation" /\ op' = "none"
          => /\ NoLoopAlive
             /\ active_connections = <<>>
             /\ external_configs = <<>>]_vars

\* C18: tick order.  The samples sent to a connection are sent in the order
\* of their production, none twice.
C18_TickOrder ==
    \A s \in 1..fresh :
       \A i, j \in 1..Len(received[s]) : i < j => received[s][i] < received[s][j]

\* C19: a connection registered before a tick's fan-out begins gets that
\* tick's message.  When a thread has finished the fan-out of its sample,
\* every connection that was registered when the fan-out began, is still
\* registered and had no failed send has been sent the sample, whatever other
\* connections did meanwhile.
C19_NextTick ==
    \A t \in Threads :
       pc[t] \in {"external", "sleep"} /\ arinc_data[t] # <<>> =>
          \A s \in (Elems(tick_subs) \cap Elems(active_connections)) \ failed :
             Count(received[s], TickOf(t)) = 1

\* the list xs without its item at the 0-based position index
Without(xs, index) ==
    [i \in 1..(Len(xs) - 1) |-> IF i <= index THEN xs[i] ELSE xs[i + 1]]

\* C20: removal of a sink by index.  An index outside 0..length-1 is answered
\* with status 404 and leaves the registry as it was; an index inside removes
\* the entry at that position and keeps the others in their order.
C20_RemoveByIndex ==
    op = "remove_external_config" =>
       IF 0 <= arg.index /\ arg.index < Len(arg.configs)
       THEN /\ ret.status_code = 200
            /\ external_configs = Without(arg.configs, arg.index)
       ELSE /\ ret.status_code = 404
            /\ external_configs = arg.configs


-----------------------------------------------------------------------------
(* The current-sample query                                                *)

\* the query handler called between the calls of the generator, on the
\* generator's current sample and on no sample
NextRoute ==
    \/ \E d \in DrawInputs : clock <= MaxSamples /\ GenerateFlightData(d)
    \/ GetCurrentDataEndpoint
    \/ GetCurrentDataRoute
    \/ Return

SpecRoute == Init /\ [][NextRoute]_vars

-----------------------------------------------------------------------------
(* Properties of the generator: the rates and the reset                    *)

GenerateOps == {"generate_flight_data", "generate_arinc429_data"}

\* the three rates are the ones of the draws d
RatesDrawn(d) ==
    /\ heading_change_rate = d.heading_change_rate
    /\ altitude_change_rate = d.altitude_change_rate
    /\ speed_change_rate = d.speed_change_rate

\* C22: rates set by set_flight_parameters last one tick.  After any
\* generate call, whatever the rates were before it, the three rates are the
\* values drawn in that call, inside [-1,1] deg/s, [-500,500] ft/min and
\* [-5,5] kt/s, and the vertical speed equals the new altitude rate.
C22_RatesOneTick ==
    /\ [](op \in GenerateOps =>
            /\ abs(heading_change_rate) <= 1 * Unit
            /\ abs(altitude_change_rate) <= 500 * Unit
            /\ abs(speed_change_rate) <= 5 * Unit
            /\ current_vertical_speed = altitude_change_rate)
    /\ [][op = "none" /\ op' \in GenerateOps => \E d \in DrawInputs : RatesDrawn(d)']_vars

\* C22 witness: the rates were set to 89.9 deg/s, -100000 ft/min, 100000 kt/s
\* (the first generate turned the heading from 270 to 359.9 and more), and
\* after that generate they are the drawn -1 deg/s, 250 ft/min, -5 kt/s.
C22_Witness ==
    /\ op = "generate_flight_data"
    /\ Len(produced) = 2
    /\ produced[2].heading >= 359 * Unit
    /\ produced[2].airspeed = 1000 * Unit
    /\ heading_change_rate = -1 * Unit
    /\ altitude_change_rate = 250 * Unit
    /\ speed_change_rate = -5 * Unit
    /\ current_vertical_speed = 250 * Unit

\* C23: reset_position(latitude, longitude) sets the position to its
\* arguments and altitude, airspeed, heading and vertical speed to 35000 ft,
\* 450 kt, 270 deg and 0 ft/min, and changes nothing else: the rates, the
\* history, the current sample and the encoder are as before, so
\* get_current_data still returns the last sample produced.
C23_ResetFrame ==
    /\ [][op' = "reset_position" =>
             /\ current_latitude' = arg'[1]
             /\ current_longitude' = arg'[2]
             /\ current_altitude' = 35000 * Unit
             /\ current_airspeed' = 450 * Unit
             /\ current_heading' = 270 * Unit
             /\ current_vertical_speed' = 0
             /\ UNCHANGED <<heading_change_rate, altitude_change_rate, speed_change_rate,
                            history, current_data, produced, clock, navVars, codecVars,
                            srvVars>>]_vars
    /\ [](op = "get_current_data" => ret = produced[Len(produced)])
    /\ [](current_data = produced[Len(produced)])

\* C23 witness: get_current_data after a generate, a set_flight_parameters
\* and a reset to (40.1281, 32.9951): the state is the reset one, the rates
\* are the ones set and the sample returned is the one produced before.
C23_Witness ==
    /\ op = "get_current_data"
    /\ Len(produced) = 2
    /\ current_latitude = 401281 * (DegUnit \div 10000)
    /\ current_longitude = 329951 * (DegUnit \div 10000)
    /\ current_altitude = 35000 * Unit
    /\ current_heading = 270 * Unit
    /\ heading_change_rate = -1000 * Unit
    /\ ret = produced[2]
    /\ ret.latitude # current_latitude
    /\ ret.altitude # current_altitude
    /\ history = produced

-----------------------------------------------------------------------------
(* The worked example of the codec                                         *)

\* latitude -41.2622
ExampleLatitude == -412622 * (DegUnit \div 10000)

\* the first word of an encode_flight_data result is the latitude word of the
\* example, with the data field given
ExampleWord(r, data) ==
    /\ Len(r.messages) >= 1
    /\ r.fields[1] = "latitude"
    /\ r.messages[1].label = "6A"
    /\ r.messages[1].sdi = "00"
    /\ r.messages[1].data = data
    /\ r.messages[1].ssm = "11"
    /\ Ones(WordBits(r.messages[1])) % 2 = 1

\* the worked example with the data field `data`: encode_latitude(-41.2622)
\* sets ssm "11" and returns data, which is 412622 masked to 19 bits in
\* binary, and the latitude word of encode_flight_data holds label 6A, sdi 00,
\* that data, ssm 11 and a parity bit that makes the number of set bits odd
ExampleHolds(data) ==
    /\ (op = "encode" /\ arg.field = "latitude" /\ arg.value = ExampleLatitude)
          => /\ ~ret.raised
             /\ ret.ssm = "11"
             /\ ssm = "11"
             /\ ret.data = format019b(Mask19(412622))
             /\ ret.data = data
    /\ (op = "encode_flight_data" /\ arg.latitude = ExampleLatitude)
          => ExampleWord(ret, data)

\* C24 (as claimed): the data field of the example is the bit string
\* 0110010101001001110.
C24_ExampleAsClaimed ==
    ExampleHolds(<<0,1,1,0,0,1,0,1,0,1,0,0,1,0,0,1,1,1,0>>)

\* C24 (amended): the data field of the example is the bit string
\* 1100100101111001110, the binary form of 412622; with label 6A, sdi 00 and
\* ssm 11 the 31 bits hold 17 ones and the parity bit is 0.
C24_Example ==
    /\ ExampleHolds(<<1,1,0,0,1,0,0,1,0,1,1,1,1,0,0,1,1,1,0>>)
    /\ (op = "encode_flight_data" /\ arg.latitude = ExampleLatitude)
          => ret.messages[1].parity = "0"

\* C24 witness: encode_flight_data of a sample of latitude -41.2622 returned
\* the latitude word with ssm 11 and parity 0.
C24_Witness ==
    /\ op = "encode_flight_data"
    /\ arg.latitude = ExampleLatitude
    /\ ExampleWord(ret, format019b(412622))
    /\ ret.messages[1].parity = "0"

-----------------------------------------------------------------------------
(* data_generator.py: SimulatedFlightDataGenerator                         *)
(*                                                                         *)
(* The subclass adds waypoints, add_waypoint and _navigate_to_waypoint and *)
(* overrides nothing: its generate_flight_data is the inherited one, and   *)
(* nothing in the program calls _navigate_to_waypoint.                     *)

\* waypoints added in the runs of SpecNav
MaxWaypoints == 2

\* math.degrees(math.atan(p / q)) for 0 <= p <= q, q > 0, in 1/Unit degrees:
\* the approximation 45 z + 15.64 z (1 - z) degrees of atan z on [0,1], with
\* z counted in thousandths
AtanDeg(p, q) ==
    LET t == (p * 1000) \div q
    IN  (45 * Unit * t) \div 1000 + (((1564 * t * (1000 - t)) \div 1000000) * Unit) \div 100

\* math.degrees(math.atan2(y, x)) in 1/Unit degrees, in (-180, 180]
Atan2Deg(y, x) ==
    IF x = 0 /\ y = 0 THEN 0
    ELSE LET ay == abs(y)
             ax == abs(x)
             first == IF ay <= ax THEN AtanDeg(ay, ax) ELSE 90 * Unit - AtanDeg(ax, ay)
             upper == IF x >= 0 THEN first ELSE 180 * Unit - first
         IN  IF y >= 0 THEN upper ELSE -upper

\* _calculate_bearing in 1/Unit degrees, positions in 1/DegUnit degrees
_calculate_bearing(lat1, lon1, lat2, lon2) ==
    LET a1 == LatAngle(lat1)
        a2 == LatAngle(lat2)
        dl == LatAngle(lon2 - lon1)
        y == Quot(SinE4(dl) * CosE4(a2), 10000)
        x == Quot(CosE4(a1) * SinE4(a2), 10000)
             - Quot(Quot(SinE4(a1) * CosE4(a2), 10000) * CosE4(dl), 10000)
    IN  (Atan2Deg(y, x) + 360 * Unit) % (360 * Unit)

\* _calculate_distance(...) < 0.01: the haversine distance on a sphere of
\* radius 6371 km (111.195 km to the degree) is below 10 m, that is below
\* 89.9 millionths of a degree of arc.  Differences below a thousandth of a
\* degree use the small-angle form a = (dlat^2 + cos(lat1) cos(lat2) dlon^2) / 4
\* of the haversine; larger ones are farther than 10 m.
distance_below_10m(lat1, lon1, lat2, lon2) ==
    LET micro == DegUnit \div 1000000
        dlat == abs(lat2 - lat1) \div micro
        dlon == abs(lon2 - lon1) \div micro
        east == (dlon * CosE4(LatAngle(lat1))) \div 10000
    IN  /\ dlat < 1000
        /\ dlon < 1000
        /\ 100 * (dlat * dlat + east * east) < 899 * 899

\* heading_diff of _navigate_to_waypoint: target heading minus heading, brought
\* into [-180, 180]
heading_diff(k, waypoint) ==
    LET diff == _calculate_bearing(k.latitude, k.longitude, waypoint.latitude, waypoint.longitude)
                - k.heading
    IN  IF diff > 180 * Unit THEN diff - 360 * Unit
        ELSE IF diff < -180 * Unit THEN diff + 360 * Unit
        ELSE diff

\* _navigate_to_waypoint on kinematic state k: the heading_change_rate and the
\* current_waypoint_index it leaves
_navigate_to_waypoint(k, wps, index) ==
    IF wps = <<>> \/ index >= Len(wps)
    THEN [heading_change_rate |-> k.heading_change_rate, current_waypoint_index |-> index]
    ELSE LET waypoint == wps[index + 1]
             diff == heading_diff(k, waypoint)
             max_turn_rate == 3 * Unit
         IN  [heading_change_rate |->
                  IF abs(diff) > 1 * Unit THEN Max(-max_turn_rate, Min(max_turn_rate, diff)) ELSE 0,
              current_waypoint_index |->
                  IF distance_below_10m(k.latitude, k.longitude, waypoint.latitude, waypoint.longitude)
                  THEN index + 1 ELSE index]

\* arguments of add_waypoint: the initial position, and points five degrees
\* north and five degrees south of it
WaypointInputs ==
    {[latitude |-> 412622 * (DegUnit \div 10000) + n * DegUnit,
      longitude |-> 287278 * (DegUnit \div 10000),
      altitude |-> 35000 * Unit] : n \in {0, 5, -5}}

\* generator.add_waypoint(latitude, longitude, altitude)
AddWaypoint ==
    /\ op = "none"
    /\ Len(waypoints) < MaxWaypoints
    /\ \E w \in WaypointInputs :
          /\ waypoints' = Append(waypoints, w)
          /\ arg' = w
    /\ op' = "add_waypoint"
    /\ ret' = <<>>
    /\ UNCHANGED <<current_latitude, current_longitude, current_altitude,
                   current_airspeed, current_heading, current_vertical_speed,
                   heading_change_rate, altitude_change_rate, speed_change_rate,
                   current_data, history, clock, produced, current_waypoint_index, twin,
                   codecVars, srvVars>>

\* a SimulatedFlightDataGenerator given waypoints and asked for samples
NextNav ==
    \/ AddWaypoint
    \/ \E d \in DrawInputs : clock <= MaxSamples /\ GenerateFlightData(d)
    \/ Return

SpecNav == Init /\ [][NextNav]_vars

-----------------------------------------------------------------------------
(* Properties of the waypoint-following generator                          *)

ActiveWaypoint == waypoints # <<>> /\ current_waypoint_index < Len(waypoints)

Sign(x) == IF x > 0 THEN 1 ELSE IF x < 0 THEN -1 ELSE 0

\* C25 (as claimed): on every tick with an active waypoint the controller
\* runs before the heading is integrated.  The heading rate the tick
\* integrates is the controller's command, which lies in [-3, 3] deg/s and has
\* the sign of the bearing error; the waypoint index grows by one exactly when
\* the waypoint is less than 0.01 km away, and never exceeds the number of
\* waypoints.
C25_Waypoint ==
    /\ [](current_waypoint_index <= Len(waypoints))
    /\ [][(op = "none" /\ op' = "generate_flight_data" /\ ActiveWaypoint) =>
            \E n \in {_navigate_to_waypoint(Kin, waypoints, current_waypoint_index)} :
               /\ abs(n.heading_change_rate) <= 3 * Unit
               /\ Sign(n.heading_change_rate)
                     = Sign(heading_diff(Kin, waypoints[current_waypoint_index + 1]))
               /\ \E d \in DrawInputs :
                     Kin' = generate([Kin EXCEPT !.heading_change_rate = n.heading_change_rate],
                                     d, clock).kin
               /\ current_waypoint_index' = n.current_waypoint_index]_vars

-----------------------------------------------------------------------------
(* Properties of the integration step                                      *)

\* C26 (as claimed): in every generate call from a heading in [0,360), with
\* whatever heading rate, the heading after the integration step and before
\* the clamp is (heading + heading_change_rate * dt) mod 360 and lies in
\* [0,360).
C26_HeadingWrap ==
    [][(op = "none" /\ op' \in GenerateOps /\ 0 <= current_heading /\ current_heading < 360 * Unit)
          => /\ integrate_heading(Kin)
                   = (current_heading + heading_change_rate * update_interval) % (360 * Unit)
             /\ 0 <= integrate_heading(Kin)
             /\ integrate_heading(Kin) < 360 * Unit]_vars

-----------------------------------------------------------------------------
(* generate_arinc429_data step by step                                     *)
(*                                                                         *)
(* The loop thread calls generate_arinc429_data once per tick and the      *)
(* handler get_arinc429_data calls it in the server's thread, on the same  *)
(* generator and the same encoder, with no lock.  Here a call is a         *)
(* sequence of steps between which the other thread may run: the           *)
(* kinematic update with the construction of the sample (one step: the     *)
(* properties below read no kinematic value other than through the         *)
(* sample), each write of generate_flight_data to history and              *)
(* current_data, and per field of encode_flight_data the encoder call, the *)
(* parity call and the construction of the message, each of which reads or *)
(* writes self.ssm.                                                        *)

\* the draws of the calls of these runs: all at the lower end, all at the upper end
RaceDraws == {[x \in DOMAIN UniformRange |-> n * UniformRange[x]] : n \in {-1, 1}}

raceVars == <<active_connections, external_configs, running, arinc_data, idx, disconnected,
              fresh, received, attempts, failed, tick_subs, mutated, dropped>>

\* line 287 of the loop: the thread enters generate_arinc429_data
LoopCallBegin(t) ==
    /\ pc[t] = "generate"
    /\ tick < MaxTicks
    /\ calls[t].pc = "idle"
    /\ calls' = [calls EXCEPT ![t].pc = "advance"]
    /\ pc' = [pc EXCEPT ![t] = "generating"]
    /\ tick' = tick + 1
    /\ tick_sinks' = EnabledUrls(external_configs)
    /\ UNCHANGED <<raceVars, sdi, ssm, callVars, genVars>>

\* GET /api/arinc429-data: the handler enters generate_arinc429_data
QueryCallBegin ==
    /\ op = "none"
    /\ calls[ServerThread].pc = "idle"
    /\ calls' = [calls EXCEPT ![ServerThread].pc = "advance"]
    /\ op' = "get_arinc429_data"
    /\ arg' = <<>>
    /\ ret' = <<>>
    /\ UNCHANGED <<sdi, ssm, genVars, srvVars>>

\* generate_flight_data up to the construction of new_data, with the draws d
Advance(c, d) ==
    /\ calls[c].pc = "advance"
    /\ \E g \in {generate(Kin, d, clock)} :
          /\ SetKin(g.kin)
          /\ produced' = Append(produced, g.new_data)
          /\ calls' = [calls EXCEPT ![c].pc = "append", ![c].new_data = g.new_data]
    /\ clock' = clock + 1
    /\ UNCHANGED <<history, current_data, navVars, twin, sdi, ssm, callVars, srvVars>>

\* self.history.append(new_data)
HistoryAppend(c) ==
    /\ calls[c].pc = "append"
    /\ history' = Append(history, calls[c].new_data)
    /\ calls' = [calls EXCEPT ![c].pc = "assign"]
    /\ UNCHANGED <<current_latitude, current_longitude, current_altitude,
                   current_airspeed, current_heading, current_vertical_speed,
                   heading_change_rate, altitude_change_rate, speed_change_rate,
                   current_data, clock, produced, navVars, twin, sdi, ssm, callVars, srvVars>>

\* self.current_data = new_data
SetCurrent(c) ==
    /\ calls[c].pc = "assign"
    /\ current_data' = calls[c].new_data
    /\ calls' = [calls EXCEPT ![c].pc = "trim"]
    /\ UNCHANGED <<current_latitude, current_longitude, current_altitude,
                   current_airspeed, current_heading, current_vertical_speed,
                   heading_change_rate, altitude_change_rate, speed_change_rate,
                   history, clock, produced, navVars, twin, sdi, ssm, callVars, srvVars>>

\* if len(self.history) > self.max_history: self.history.pop(0); then
\* generate_flight_data returns and encode_flight_data begins
HistoryTrim(c) ==
    /\ calls[c].pc = "trim"
    /\ history' = IF Len(history) > max_history THEN Tail(history) ELSE history
    /\ calls' = [calls EXCEPT ![c].pc = "encode", ![c].i = 1]
    /\ UNCHANGED <<current_latitude, current_longitude, current_altitude,
                   current_airspeed, current_heading, current_vertical_speed,
                   heading_change_rate, altitude_change_rate, speed_change_rate,
                   current_data, clock, produced, navVars, twin, sdi, ssm, callVars, srvVars>>

\* the position after field i of the for loop of encode_flight_data
AfterField(i) == IF i < Len(Fields) THEN "encode" ELSE "return"

\* data_binary = encoder_func(value): writes self.ssm; a ValueError goes to
\* the next field
EncodeValue(c) ==
    /\ calls[c].pc = "encode"
    /\ \E r \in {encoder_func(Fields[calls[c].i], calls[c].new_data[Fields[calls[c].i]], ssm)} :
          /\ ssm' = r.ssm
          /\ calls' = IF r.raised
                       THEN [calls EXCEPT ![c].pc = AfterField(calls[c].i), ![c].i = @ + 1]
                       ELSE [calls EXCEPT ![c].pc = "parity", ![c].data_binary = r.data]
    /\ UNCHANGED <<sdi, callVars, genVars, srvVars>>

\* parity = self.calculate_parity(label, self.sdi, data_binary, self.ssm):
\* reads self.ssm
EncodeParity(c) ==
    /\ calls[c].pc = "parity"
    /\ calls' = [calls EXCEPT ![c].pc = "message",
                               ![c].parity = calculate_parity(LABELS[Fields[calls[c].i]], sdi,
                                                              calls[c].data_binary, ssm)]
    /\ UNCHANGED <<sdi, ssm, callVars, genVars, srvVars>>

\* message = ARINC429Message(..., ssm=self.ssm, ...): reads self.ssm again;
\* messages.append(message)
EncodeMessage(c) ==
    /\ calls[c].pc = "message"
    /\ calls' = [calls EXCEPT
                    ![c].pc = AfterField(calls[c].i),
                    ![c].i = @ + 1,
                    ![c].messages = Append(@, ARINC429Message(LABELS[Fields[calls[c].i]], sdi,
                                                              calls[c].data_binary, ssm,
                                                              calls[c].parity,
                                                              calls[c].new_data.timestamp)),
                    ![c].fields = Append(@, Fields[calls[c].i])]
    /\ UNCHANGED <<sdi, ssm, callVars, genVars, srvVars>>

\* the ARINC429Data a call returns
CallResult(c) ==
    [flight_data |-> calls[c].new_data, arinc_messages |-> calls[c].messages,
     raw_data |-> raw_data(calls[c].messages)]

\* generate_arinc429_data returns to the loop
LoopCallReturn(t) ==
    /\ pc[t] = "generating"
    /\ calls[t].pc = "return"
    /\ arinc_data' = [arinc_data EXCEPT ![t] = CallResult(t)]
    /\ pc' = [pc EXCEPT ![t] = "broadcast"]
    /\ calls' = [calls EXCEPT ![t] = Idle]
    /\ UNCHANGED <<regVars, idx, disconnected, logVars, fresh, mutated, sdi, ssm,
                   callVars, genVars>>

\* generate_arinc429_data returns to the handler, which answers
QueryCallReturn ==
    /\ op = "get_arinc429_data"
    /\ calls[ServerThread].pc = "return"
    /\ ret' = [status_code |-> 200, data |-> CallResult(ServerThread)]
    /\ op' = "api_arinc429_data"
    /\ arg' = <<>>
    /\ calls' = [calls EXCEPT ![ServerThread] = Idle]
    /\ UNCHANGED <<sdi, ssm, genVars, srvVars>>

\* the steps inside a call
CallStep(c) ==
    \/ \E d \in RaceDraws : Advance(c, d)
    \/ HistoryAppend(c)
    \/ SetCurrent(c)
    \/ HistoryTrim(c)
    \/ EncodeValue(c)
    \/ EncodeParity(c)
    \/ EncodeMessage(c)

\* the started server with nobody connected and nothing configured, its loop
\* ticking while GET /api/arinc429-data is served
NextRace ==
    \/ StartDataGeneration /\ NoLoopAlive
    \/ \E t \in Threads : LoopCheck(t)
    \/ \E t \in Threads : clock <= MaxSamples /\ LoopCallBegin(t)
    \/ \E t \in Threads : LoopCallReturn(t)
    \/ \E t \in Threads : BroadcastBegin(t)
    \/ \E t \in Threads : ExternalDone(t)
    \/ \E t \in Threads : Sleep(t)
    \/ clock <= MaxSamples /\ QueryCallBegin
    \/ QueryCallReturn
    \/ Return
    \/ \E c \in Callers : CallStep(c)

SpecRace == Init /\ [][NextRace]_vars

-----------------------------------------------------------------------------
(* Properties of concurrent calls                                          *)

\* the ssm of the word of field f for a source value
SsmOf(f, value) == IF f \in SignedFields /\ value < 0 THEN "11" ELSE "00"

\* C27 (as claimed): when the loop and the query run encode_flight_data on
\* the one encoder at the same time, every word of either result has the ssm
\* of its own source value (unsigned fields "00", signed fields "11" iff
\* negative) and odd parity over its 32 bits.
C27_SharedEncoder ==
    \A c \in Callers : \A j \in 1..Len(calls[c].messages) :
        /\ calls[c].messages[j].ssm = SsmOf(calls[c].fields[j], calls[c].new_data[calls[c].fields[j]])
        /\ Ones(WordBits(calls[c].messages[j])) % 2 = 1

\* a call is between its entry into generate_flight_data and that method's return
Advancing(c) == calls[c].pc \in {"advance", "append", "assign", "trim"}

\* C29 (as claimed): whenever no advance is in progress the current sample is
\* the newest entry of the history, which is never empty.
C29_CurrentIsNewest ==
    /\ history # <<>>
    /\ (\A c \in Callers : ~Advancing(c)) => current_data = history[Len(history)]

-----------------------------------------------------------------------------
(* Properties of start and stop                                            *)

\* C28 (as claimed): at most one tick loop is active at any time, after any
\* sequence of start and stop calls: a loop thread about to produce a sample
\* is the only loop thread alive.
C28_OneLoop ==
    \A t \in Threads : pc[t] = "generate" => \A u \in Threads \ {t} : ~Alive(u)


-----------------------------------------------------------------------------
(* Two simulators side by side: the same draws and calls, other            *)
(* altitude_change arguments                                               *)

\* altitude_change arguments passed to the second simulator
AltitudeChangeInputs == {0, 100000 * Unit}

\* generate_flight_data() on both simulators, with the same draws d
TwinGenerateFlightData(d) ==
    /\ op = "none"
    /\ \E g \in {generate(Kin, d, clock)}, h \in {generate(twin.kin, d, clock)} :
          /\ SetKin(g.kin)
          /\ history' = append_history(history, g.new_data)
          /\ current_data' = g.new_data
          /\ produced' = Append(produced, g.new_data)
          /\ ret' = g.new_data
          /\ twin' = [twin EXCEPT !.kin = h.kin, !.produced = Append(@, h.new_data)]
    /\ clock' = clock + 1
    /\ op' = "generate_flight_data"
    /\ arg' = <<>>
    /\ UNCHANGED <<navVars, codecVars, srvVars>>

\* set_flight_parameters on both simulators: the same heading_change and
\* speed_change, any altitude_change on each
TwinSetFlightParameters ==
    /\ op = "none"
    /\ \E r \in RateInputs, a \in AltitudeChangeInputs :
        /\ heading_change_rate' = r[1]
        /\ altitude_change_rate' = r[2]
        /\ speed_change_rate' = r[3]
        /\ twin' = [twin EXCEPT !.kin.heading_change_rate = r[1],
                                !.kin.altitude_change_rate = a,
                                !.kin.speed_change_rate = r[3],
                                !.diverged = @ \/ a # r[2]]
        /\ op' = "set_flight_parameters"
        /\ arg' = r
    /\ ret' = <<>>
    /\ UNCHANGED <<current_latitude, current_longitude, current_altitude,
                   current_airspeed, current_heading, current_vertical_speed,
                   current_data, history, clock, produced, navVars, codecVars, srvVars>>

\* reset_position(latitude, longitude) on both simulators
TwinResetPosition ==
    /\ op = "none"
    /\ \E p \in PositionInputs :
        /\ current_latitude' = p[1]
        /\ current_longitude' = p[2]
        /\ twin' = [twin EXCEPT !.kin.latitude = p[1],
                                !.kin.longitude = p[2],
                                !.kin.altitude = 35000 * Unit,
                                !.kin.airspeed = 450 * Unit,
                                !.kin.heading = 270 * Unit,
                                !.kin.vertical_speed = 0]
        /\ op' = "reset_position"
        /\ arg' = p
    /\ current_altitude' = 35000 * Unit
    /\ current_airspeed' = 450 * Unit
    /\ current_heading' = 270 * Unit
    /\ current_vertical_speed' = 0
    /\ ret' = <<>>
    /\ UNCHANGED <<heading_change_rate, altitude_change_rate, speed_change_rate,
                   current_data, history, clock, produced, navVars, codecVars, srvVars>>

NextTwin ==
    \/ \E d \in DrawInputs : clock <= MaxSamples /\ TwinGenerateFlightData(d)
    \/ TwinSetFlightParameters
    \/ TwinResetPosition
    \/ Return

SpecTwin == Init /\ [][NextTwin]_vars

\* C30: two simulators that start in the same state and receive the same draws
\* and the same calls, with any altitude_change arguments of
\* set_flight_parameters on each, have produced the same samples at every
\* moment; what they may differ in is the stored altitude_change_rate alone.
C30_AltitudeChangeUnseen ==
    /\ twin.produced = produced
    /\ [twin.kin EXCEPT !.altitude_change_rate = altitude_change_rate] = Kin

\* C30 witness: the two simulators were given different altitude_change
\* arguments, the stored rates differed, and both have produced samples
\* since, at an altitude that is not the initial one.
C30_Witness ==
    /\ twin.diverged
    /\ op = "generate_flight_data"
    /\ Len(produced) = 3
    /\ produced[3].altitude # produced[1].altitude
    /\ twin.produced[3] = produced[3]

=========================================================================
